---- MODULE Spec2Model ----
(***************************************************************************)
(* State-machine model of the inspection core of HouseCheckingApp:         *)
(* Inspector (src/main.py), get_next_filename (src/utils/file_utils.py),   *)
(* detect_part_presence, detect_spatter, calculate_seam_lengths and       *)
(* annotate_image (src/image_processing/detection.py) and                  *)
(* CameraController.capture_image (src/camera/camera_controller.py).       *)
(*                                                                         *)
(* Conventions.                                                            *)
(*  - Text that the program parses again (the User and Ordernumber cells   *)
(*    of the record) is a sequence of one-character strings, so that       *)
(*    pandas' type inference on read_csv can be computed.                  *)
(*  - Measurement values are integers counting hundredths (4000 = 40.0):   *)
(*    the record keeps two decimals (round(float(val), 2)).                *)
(*  - A hole is <<<<x, y>>, width, height>> as in detect_holes, in pixels. *)
(*  - The detectors (OpenCV) are inputs: a frame is what they return for   *)
(*    an image, [present, holes, spatter].                                 *)
(*  - An image object is [scene, overlays]: the frame it shows and the     *)
(*    drawing calls made on it; images are held by reference in heap.      *)
(***************************************************************************)
EXTENDS Integers, Sequences, FiniteSets, TLC

VARIABLES
    user,           \* Inspector.user (characters)
    order_number,   \* Inspector.order_number (characters)
    ok_counter,     \* Inspector.ok_counter
    nok_counter,    \* Inspector.nok_counter
    files,          \* paths of the image files that exist in the order directory
    csv,            \* rows of the order's record file, in file order
    is_connected,   \* CameraController.is_connected
    frame,          \* the detector outputs of the frame the last call worked on
    result,         \* outcome of the last call
    session,        \* number of Inspector objects created on the directory so far
    done_ok,        \* calls of this session that returned status OK
    done_nok,       \* calls of this session that returned status NOK
    raised,         \* calls of this session that ended with an exception
    calls,          \* calls made on the order directory, over all sessions
    requests,       \* get_next_filename requests made by a direct caller
    max_spatter_count, \* Config.MAX_SPATTER_COUNT after load_from_environment
    heap,           \* the image objects (numpy arrays) of the last call, by reference
    img,            \* reference of the image the caller passed to the last call
    annotated,      \* reference of the image the last call handed to cv2.imwrite
    rows_at_creation, \* rows the record held when the Inspector was created
    gray,           \* pixel intensities given to detect_part_presence
    mean_threshold, \* threshold given to detect_part_presence
    part_present,   \* what detect_part_presence returned
    seam_holes,     \* holes given to calculate_seam_lengths
    seams,          \* what calculate_seam_lengths returned
    offset,         \* vector by which seam_holes was moved since the first call
    contour_areas,  \* cv2.contourArea of the contours detect_spatter found
    spatter_found,  \* what detect_spatter returned
    writers,        \* the Inspector processes at work on the order's record
    pc,             \* where each of them stands in its call
    locals          \* the local variables of each of them

\* the state of an order directory and of the Inspector working on it
sessvars == <<user, order_number, ok_counter, nok_counter, files, csv, is_connected,
              frame, result, session, done_ok, done_nok, raised, calls, requests,
              max_spatter_count, heap, img, annotated, rows_at_creation>>

\* the arguments and return values of the detection functions called directly
detvars == <<gray, mean_threshold, part_present, seam_holes, seams, offset,
             contour_areas, spatter_found>>

\* calls followed statement by statement
stepvars == <<writers, pc, locals>>

vars == <<sessvars, detvars, stepvars>>

-----------------------------------------------------------------------------
(* Bounds of the model *)

MaxCalls == 2          \* calls on one order directory (Spec, SpecCapture)
MaxSessions == 2       \* Inspector objects created on one order directory
MaxHoles == 5          \* circles detect_holes returns on one frame
MaxClassifyCalls == 1  \* calls on one order directory (SpecClassify)
MaxSuffix == 2         \* largest "_k" among the files present at the start (SpecNaming)
MaxRequests == 3       \* get_next_filename requests of a direct caller (SpecNaming)
MaxPixels == 3         \* pixels of an image given to detect_part_presence
MaxShift == 50         \* largest distance a part is moved along an axis (SpecSeams)
MaxContours == 3       \* contours findContours returns on one image (SpecSpatter)
MaxWriters == 2        \* Inspector processes on one order's record (SpecWriters)
MaxAppends == 3        \* _save_to_csv calls on one record (SpecWriters)

-----------------------------------------------------------------------------
(* Configuration (src/config.py) *)

PART_DETECTION_THRESHOLD == 240
EXPECTED_HOLE_COUNT == 4
MAX_SPATTER_COUNT == 5
HOLE_DIAMETER_MIN == 35
HOLE_DIAMETER_MAX == 45
WELD_SEAM_LENGTH_MIN == 80
WELD_SEAM_LENGTH_MAX == 120

-----------------------------------------------------------------------------
(* Text: Python str as characters *)

Digits == <<"0", "1", "2", "3", "4", "5", "6", "7", "8", "9">>

IsDigit(c) == \E d \in 1..10 : Digits[d] = c

DigitValue(c) == (CHOOSE d \in 1..10 : Digits[d] = c) - 1

RECURSIVE Str(_)
Str(chars) ==
    IF chars = <<>> THEN "" ELSE Head(chars) \o Str(Tail(chars))

\* int(text): the value of a decimal numeral, leading zeros ignored
RECURSIVE ParseInt(_)
ParseInt(chars) ==
    IF chars = <<>> THEN 0
    ELSE 10 * ParseInt(SubSeq(chars, 1, Len(chars) - 1))
         + DigitValue(chars[Len(chars)])

\* str(n) for n >= 0: the canonical decimal numeral
RECURSIVE IntToChars(_)
IntToChars(n) ==
    IF n < 10 THEN <<Digits[n + 1]>>
    ELSE IntToChars(n \div 10) \o <<Digits[(n % 10) + 1]>>

IsIntText(chars) == chars # <<>> /\ \A i \in 1..Len(chars) : IsDigit(chars[i])

-----------------------------------------------------------------------------
(* Geometry: calculate_seam_lengths (src/image_processing/detection.py) *)

RECURSIVE IsqrtBetween(_, _, _)
IsqrtBetween(n, lo, hi) ==
    IF lo >= hi THEN lo
    ELSE LET mid == (lo + hi + 1) \div 2
         IN  IF mid * mid <= n THEN IsqrtBetween(n, mid, hi)
             ELSE IsqrtBetween(n, lo, mid - 1)

\* a distance that takes the second point's y for the difference of the ys
distance_abs_y(p1, p2) ==
    LET dx == p2[1] - p1[1]
        dy == p2[2]
        n  == 10000 * (dx * dx + dy * dy)
        r  == IsqrtBetween(n, 0, 46340)
    IN  IF n - r * r > r THEN r + 1 ELSE r

\* float(np.hypot(dx, dy)) in hundredths, to the nearest hundredth
distance(p1, p2) ==
    LET dx == p2[1] - p1[1]
        dy == p2[2] - p1[2]
        n  == 10000 * (dx * dx + dy * dy)
        r  == IsqrtBetween(n, 0, 46340)
    IN  IF n - r * r > r THEN r + 1 ELSE r

\* an insertion that puts a hole before the holes of equal key
RECURSIVE InsertByKeyTiesFirst(_, _, _)
InsertByKeyTiesFirst(h, sortedHoles, axis) ==
    IF sortedHoles = <<>> THEN <<h>>
    ELSE IF h[1][axis] <= Head(sortedHoles)[1][axis]
         THEN <<h>> \o sortedHoles
         ELSE <<Head(sortedHoles)>>
              \o InsertByKeyTiesFirst(h, Tail(sortedHoles), axis)

\* sorted(holes, key=lambda h: h[0][axis]): Python's sort is stable.
\* axis 1 is x (h[0][0]), axis 2 is y (h[0][1]).
RECURSIVE InsertByKey(_, _, _)
InsertByKey(h, sortedHoles, axis) ==
    IF sortedHoles = <<>> THEN <<h>>
    ELSE IF h[1][axis] < Head(sortedHoles)[1][axis]
         THEN <<h>> \o sortedHoles
         ELSE <<Head(sortedHoles)>> \o InsertByKey(h, Tail(sortedHoles), axis)

RECURSIVE SortedByKey(_, _)
SortedByKey(holes, axis) ==
    IF holes = <<>> THEN <<>>
    ELSE InsertByKey(holes[Len(holes)],
                     SortedByKey(SubSeq(holes, 1, Len(holes) - 1), axis), axis)

\* the whole width taken for the radius
RadiusAsWidth(h) == h[2] * 100

\* radius in hundredths: width / 2.0
Radius(h) == h[2] * 50

\* rows taken from the list as it comes, without the sort by y
SeamRowsUnsorted(holes) ==
    <<SortedByKey(SubSeq(holes, 1, 2), 1), SortedByKey(SubSeq(holes, 3, 4), 1)>>

\* lines 97-99 (and 151-153): <<top_row, bottom_row>> of at least 4 holes
SeamRows(holes) ==
    LET holes_by_y == SortedByKey(holes, 2)
    IN  <<SortedByKey(SubSeq(holes_by_y, 1, 2), 1),
          SortedByKey(SubSeq(holes_by_y, 3, 4), 1)>>

calculate_seam_lengths(holes) ==
    IF Len(holes) < 4 THEN <<0, 0, 0, 0>>
    ELSE
      LET top_row    == SeamRows(holes)[1]
          bottom_row == SeamRows(holes)[2]
          rad_top_left  == Radius(top_row[1])
          rad_top_right == Radius(top_row[2])
          rad_bot_left  == Radius(bottom_row[1])
          rad_bot_right == Radius(bottom_row[2])
          len_top    == distance(top_row[1][1], top_row[2][1])
                        - (rad_top_left + rad_top_right)
          len_bottom == distance(bottom_row[1][1], bottom_row[2][1])
                        - (rad_bot_left + rad_bot_right)
          len_left   == distance(top_row[1][1], bottom_row[1][1])
                        - (rad_top_left + rad_bot_left)
          len_right  == distance(top_row[2][1], bottom_row[2][1])
                        - (rad_top_right + rad_bot_right)
      IN  <<len_top, len_bottom, len_left, len_right>>

-----------------------------------------------------------------------------
(* Classification: Inspector.process_and_save, lines 92-150 *)

ZeroMeasurements == [i \in 1..12 |-> 0]

\* slots that follow each other, two per hole
WidthSlotContiguous(idx) == idx * 2 + 1

\* slot (1-based) of the width of the idx-th hole (0-based idx), lines 116-123
WidthSlot(idx) == IF idx < 2 THEN idx * 2 + 1 ELSE 6 + (idx - 2) * 2 + 1

\* for idx, hole in enumerate(holes[:4]): record width and height
RECURSIVE RecordHoles(_, _, _)
RecordHoles(m, holes, idx) ==
    IF idx >= Len(holes) \/ idx >= 4 THEN m
    ELSE RecordHoles([m EXCEPT ![WidthSlot(idx)] = holes[idx + 1][2] * 100,
                               ![WidthSlot(idx) + 1] = holes[idx + 1][3] * 100],
                     holes, idx + 1)

MissingHolesDefect(found) ==
    "Missing holes: expected " \o ToString(EXPECTED_HOLE_COUNT)
        \o ", found " \o ToString(found)

SpatterDefect(spatter_count) ==
    "Excessive spatter: " \o ToString(spatter_count) \o " detected"

\* the check with <= for <
HolesMissingLeq(holes) == Len(holes) <= EXPECTED_HOLE_COUNT

\* the check against one hole fewer
HolesMissingBelow3(holes) == Len(holes) < EXPECTED_HOLE_COUNT - 1

\* a hole check that also fails a hole outside the diameter band
HolesMissingOrOutOfBand(holes) ==
    \/ Len(holes) < EXPECTED_HOLE_COUNT
    \/ \E i \in 1..Len(holes) :
          holes[i][2] < HOLE_DIAMETER_MIN \/ holes[i][2] > HOLE_DIAMETER_MAX

\* if len(holes) < Config.EXPECTED_HOLE_COUNT (line 126)
HolesMissing(holes) == Len(holes) < EXPECTED_HOLE_COUNT

\* the spatter check with >= for >
SpatterExcessiveGeq(spatter_count, max_spatter) == spatter_count >= max_spatter

\* if spatter_count > Config.MAX_SPATTER_COUNT (line 147)
SpatterExcessive(spatter_count, max_spatter) == spatter_count > max_spatter

\* a presence check that always finds a part
PartMissingNever(fr) == FALSE

\* if not part_present (line 104)
PartMissing(fr) == ~fr.present

\* a defect recorded without the status being set
FailKeepStatus(r, defect) ==
    [r EXCEPT !.defects = Append(@, defect)]

\* result['status'] = 'NOK'; result['defects'].append(defect)
Fail(r, defect) ==
    [r EXCEPT !.status = "NOK", !.defects = Append(@, defect)]

\* the result dictionary of line 92, and the locals the annotation reads
NewResult ==
    [status |-> "OK", defects |-> <<>>, measurements |-> ZeroMeasurements,
     holes |-> <<>>, seam_lengths |-> <<0, 0, 0, 0>>]

\* a classification that stops at the first failing check
AnalyseFirstFailure(fr, max_spatter) ==
    IF PartMissing(fr)
    THEN Fail(NewResult, "Part Missing")
    ELSE
      LET holes == SortedByKey(fr.holes, 1)
          r1 == [NewResult EXCEPT !.holes = holes,
                                  !.measurements = RecordHoles(@, holes, 0)]
          seam_lengths == calculate_seam_lengths(holes)
      IN  IF HolesMissing(holes)
          THEN Fail(r1, MissingHolesDefect(Len(holes)))
          ELSE IF Len(holes) < 4
          THEN Fail(r1, "Insufficient holes for weld measurement")
          ELSE LET r3 == [r1 EXCEPT !.seam_lengths = seam_lengths,
                                    !.measurements[5] = seam_lengths[1],
                                    !.measurements[6] = seam_lengths[2],
                                    !.measurements[11] = seam_lengths[3],
                                    !.measurements[12] = seam_lengths[4]]
               IN  IF SpatterExcessive(fr.spatter, max_spatter)
                   THEN Fail(r3, SpatterDefect(fr.spatter)) ELSE r3

\* the result dictionary as it stands at line 151, plus the locals the
\* annotation and the persistence read (holes, seam_lengths)
Analyse(fr, max_spatter) ==
    LET r0 == NewResult
    IN
    IF PartMissing(fr)
    THEN Fail(r0, "Part Missing")
    ELSE
      LET holes == SortedByKey(fr.holes, 1)
          r1 == [r0 EXCEPT !.holes = holes,
                           !.measurements = RecordHoles(@, holes, 0)]
          r2 == IF HolesMissing(holes)
                THEN Fail(r1, MissingHolesDefect(Len(holes))) ELSE r1
          seam_lengths == calculate_seam_lengths(holes)
          r3 == IF Len(holes) >= 4
                THEN [r2 EXCEPT !.seam_lengths = seam_lengths,
                                !.measurements[5] = seam_lengths[1],
                                !.measurements[6] = seam_lengths[2],
                                !.measurements[11] = seam_lengths[3],
                                !.measurements[12] = seam_lengths[4]]
                ELSE Fail(r2, "Insufficient holes for weld measurement")
      IN  IF SpatterExcessive(fr.spatter, max_spatter)
          THEN Fail(r3, SpatterDefect(fr.spatter)) ELSE r3

-----------------------------------------------------------------------------
(* Annotation: annotate_image (src/image_processing/detection.py) and lines  *)
(* 152-162 of process_and_save.  An image object is [scene, overlays]: what  *)
(* the camera saw, and the drawing calls made on the array since, in order.  *)
(* A heap is the sequence of the image objects; a reference is an index.     *)

Picture(fr) == [scene |-> fr, overlays |-> <<>>]

\* a copy that is the same array under another name
copy_alias(h, ref) == [heap |-> h, ref |-> ref]

\* img.copy(): a new array with the contents of the array at ref
copy(h, ref) == [heap |-> Append(h, h[ref]), ref |-> Len(h) + 1]

\* cv2.circle, cv2.line and cv2.putText draw in place on the array at ref
Draw(h, ref, ops) == [h EXCEPT ![ref].overlays = @ \o ops]

\* cv2.circle(annotated, centre, radius, (0, 255, 0), 2)
Circle(centre, radius) ==
    [op |-> "circle", at |-> centre, to |-> centre, radius |-> radius,
     text |-> "", scale |-> 0, colour |-> "green", thickness |-> 2]

\* cv2.line(annotated, p1, p2, (0, 255, 0), 2)
Line(p1, p2) ==
    [op |-> "line", at |-> p1, to |-> p2, radius |-> 0,
     text |-> "", scale |-> 0, colour |-> "green", thickness |-> 2]

\* cv2.putText(annotated, text, at, FONT_HERSHEY_SIMPLEX, scale, colour,
\* thickness); scale in tenths
Text(text, at, scale, colour, thickness) ==
    [op |-> "text", at |-> at, to |-> at, radius |-> 0,
     text |-> text, scale |-> scale, colour |-> colour, thickness |-> thickness]

\* int(v) for a float v given in hundredths: towards zero
TruncInt(v) == IF v >= 0 THEN v \div 100 ELSE -((-v) \div 100)

\* int(n / 2) for an integer n
TruncHalf(n) == IF n >= 0 THEN n \div 2 ELSE -((-n) \div 2)

\* f"{v:.2f}" for a float v given in hundredths
Fmt2(v) ==
    LET a == IF v < 0 THEN -v ELSE v
    IN  (IF v < 0 THEN "-" ELSE "") \o ToString(a \div 100) \o "."
            \o ToString((a % 100) \div 10) \o ToString(a % 10)

\* lines 138-145, for the holes in the order given
RECURSIVE HoleOps(_)
HoleOps(holes) ==
    IF holes = <<>> THEN <<>>
    ELSE LET centre == Head(holes)[1]
             width  == Head(holes)[2]
         IN  <<Circle(centre, width \div 2),
               Text("D: " \o Fmt2(width * 100),
                    <<centre[1] - 40, centre[2] - 10>>, 5, "green", 1)>>
             \o HoleOps(Tail(holes))

\* lines 148-190
SeamOps(holes, seam_lengths) ==
    IF Len(holes) < 4 THEN <<>>
    ELSE
      LET top_row    == SeamRows(holes)[1]
          bottom_row == SeamRows(holes)[2]
          tl == top_row[1][1]
          tr == top_row[2][1]
          bl == bottom_row[1][1]
          br == bottom_row[2][1]
          rad_top_left  == Radius(top_row[1])
          rad_top_right == Radius(top_row[2])
          rad_bot_left  == Radius(bottom_row[1])
          rad_bot_right == Radius(bottom_row[2])
          p1_top == <<TruncInt(tl[1] * 100 + rad_top_left), tl[2]>>
          p2_top == <<TruncInt(tr[1] * 100 - rad_top_right), tr[2]>>
          p1_bot == <<TruncInt(bl[1] * 100 + rad_bot_left), bl[2]>>
          p2_bot == <<TruncInt(br[1] * 100 - rad_bot_right), br[2]>>
          p1_left == <<tl[1], TruncInt(tl[2] * 100 + rad_top_left)>>
          p2_left == <<bl[1], TruncInt(bl[2] * 100 - rad_bot_left)>>
          p1_right == <<tr[1], TruncInt(tr[2] * 100 + rad_top_right)>>
          p2_right == <<br[1], TruncInt(br[2] * 100 - rad_bot_right)>>
      IN  << Line(p1_top, p2_top),
             Text(Fmt2(seam_lengths[1]),
                  <<TruncHalf(p1_top[1] + p2_top[1]), p1_top[2] - 10>>,
                  5, "green", 1),
             Line(p1_bot, p2_bot),
             Text(Fmt2(seam_lengths[2]),
                  <<TruncHalf(p1_bot[1] + p2_bot[1]), p1_bot[2] + 15>>,
                  5, "green", 1),
             Line(p1_left, p2_left),
             Text(Fmt2(seam_lengths[3]),
                  <<p1_left[1] - 50, TruncHalf(p1_left[2] + p2_left[2])>>,
                  5, "green", 1),
             Line(p1_right, p2_right),
             Text(Fmt2(seam_lengths[4]),
                  <<p1_right[1] + 10, TruncHalf(p1_right[2] + p2_right[2])>>,
                  5, "green", 1) >>

\* lines 193-205: the texts drawn for a NOK status
StatusOps(holes, spatter_count, status) ==
    IF status # "NOK" THEN <<>>
    ELSE
      LET hole_missing == IF Len(holes) < 4
                          THEN <<Text("Hole Missing", <<20, 30>>, 10, "red", 2)>>
                          ELSE <<>>
          y_offset == 30 + 30 * Len(hole_missing)
      IN  hole_missing
          \o (IF spatter_count > 5
              THEN <<Text("Spatter: " \o ToString(spatter_count),
                          <<20, y_offset>>, 10, "red", 2)>>
              ELSE <<>>)

\* annotate_image: the heap after the call and the reference it returns
annotate_image(h, img_ref, holes, seam_lengths, spatter_count, status) ==
    LET c == copy(h, img_ref)
    IN  [heap |-> Draw(c.heap, c.ref,
                       HoleOps(holes) \o SeamOps(holes, seam_lengths)
                           \o StatusOps(holes, spatter_count, status)),
         ref |-> c.ref]

\* lines 158-162: one text per defect, 30 pixels apart
RECURSIVE DefectOps(_, _)
DefectOps(defects, y_offset) ==
    IF defects = <<>> THEN <<>>
    ELSE <<Text(Head(defects), <<20, y_offset>>, 10, "red", 2)>>
         \o DefectOps(Tail(defects), y_offset + 30)

\* lines 152-162 of process_and_save, r the result of the classification
Annotate(h, img_ref, fr, r) ==
    IF fr.present /\ Len(r.holes) >= 4
    THEN annotate_image(h, img_ref, r.holes, r.seam_lengths, fr.spatter, r.status)
    ELSE LET c == copy(h, img_ref)
         IN  [heap |-> Draw(c.heap, c.ref, DefectOps(r.defects, 30)),
              ref |-> c.ref]

-----------------------------------------------------------------------------
(* Part presence: detect_part_presence (src/image_processing/detection.py) *)

RECURSIVE PixelSum(_)
PixelSum(pixels) ==
    IF pixels = <<>> THEN 0 ELSE Head(pixels) + PixelSum(Tail(pixels))

\* a presence check with <= for <
detect_part_presence_leq(pixels, threshold) ==
    PixelSum(pixels) <= threshold * Len(pixels)

\* float(gray.mean()) < mean_threshold, on the pixels of a non-empty image:
\* mean = sum / count, so mean < threshold iff sum < threshold * count
detect_part_presence(pixels, threshold) ==
    PixelSum(pixels) < threshold * Len(pixels)

-----------------------------------------------------------------------------
(* Spatter: detect_spatter (src/image_processing/detection.py).  The contours *)
(* of the opened binary image are OpenCV's; cv2.contourArea of a contour of   *)
(* integer points is a multiple of 0.5, and an area is kept in half pixels    *)
(* (7 = 3.5).                                                                 *)

\* a count that takes the band with its ends
RECURSIVE detect_spatter_inclusive(_)
detect_spatter_inclusive(areas) ==
    IF areas = <<>> THEN 0
    ELSE (IF 2 * 3 <= Head(areas) /\ Head(areas) <= 2 * 100 THEN 1 ELSE 0)
         + detect_spatter_inclusive(Tail(areas))

\* lines 73-80: for cnt in contours: if 3 < area < 100: spatter_count += 1
RECURSIVE detect_spatter(_)
detect_spatter(areas) ==
    IF areas = <<>> THEN 0
    ELSE (IF 2 * 3 < Head(areas) /\ Head(areas) < 2 * 100 THEN 1 ELSE 0)
         + detect_spatter(Tail(areas))

-----------------------------------------------------------------------------
(* File naming: get_next_filename (src/utils/file_utils.py) *)

\* os.path.join(directory, name)
PathJoin(directory, name) == directory \o "/" \o name

\* base_name without its ".jpg": os.path.splitext(base_name)[0]
NameWithoutExt(status, order, part_number, counter, cam_id) ==
    status \o "_" \o order \o "_" \o part_number \o "Count"
        \o ToString(counter) \o "_CAM" \o ToString(cam_id)

\* the while True loop of lines 62-71, entered with suffix
RECURSIVE FirstFreeSuffix(_, _, _, _)
FirstFreeSuffix(fs, directory, name_without_ext, suffix) ==
    LET new_path == PathJoin(directory,
                             name_without_ext \o "_" \o ToString(suffix) \o ".jpg")
    IN  IF new_path \notin fs THEN new_path
        ELSE FirstFreeSuffix(fs, directory, name_without_ext, suffix + 1)

\* a get_next_filename whose suffix search starts at 2
get_next_filename_from2(fs, directory, status, order, part_number, counter, cam_id) ==
    LET name_without_ext ==
            NameWithoutExt(status, order, part_number, counter, cam_id)
        full_path == PathJoin(directory, name_without_ext \o ".jpg")
    IN  IF full_path \notin fs THEN full_path
        ELSE FirstFreeSuffix(fs, directory, name_without_ext, 2)

\* a get_next_filename that always answers with the base path
get_next_filename_base(fs, directory, status, order, part_number, counter, cam_id) ==
    PathJoin(directory,
             NameWithoutExt(status, order, part_number, counter, cam_id) \o ".jpg")

get_next_filename(fs, directory, status, order, part_number, counter, cam_id) ==
    LET name_without_ext ==
            NameWithoutExt(status, order, part_number, counter, cam_id)
        full_path == PathJoin(directory, name_without_ext \o ".jpg")
    IN  IF full_path \notin fs THEN full_path
        ELSE FirstFreeSuffix(fs, directory, name_without_ext, 1)

-----------------------------------------------------------------------------
(* The record: Inspector._save_to_csv and pandas' read_csv / to_csv *)

Date == "2025-01-15"
Time == "08:30:00"

\* pd.read_csv infers a column's type from all of its cells: a column whose
\* cells are all decimal numerals is read as int64, any other stays text.
\* to_csv then writes an int64 cell as str(int): the canonical numeral.
ReadTextColumn(cells) ==
    IF \A i \in 1..Len(cells) : IsIntText(cells[i])
    THEN [i \in 1..Len(cells) |-> IntToChars(ParseInt(cells[i]))]
    ELSE cells

\* df_existing = pd.read_csv(self.csv_path), as to_csv writes it back
read_csv(rows) ==
    LET users  == ReadTextColumn([i \in 1..Len(rows) |-> rows[i].User])
        orders == ReadTextColumn([i \in 1..Len(rows) |-> rows[i].Ordernumber])
    IN  [i \in 1..Len(rows) |->
            [rows[i] EXCEPT !.User = users[i], !.Ordernumber = orders[i]]]

\* an append that stores a negative value as 0
save_to_csv_clamped(rows, res, counter_val, usr, order) ==
    Append(read_csv(rows),
           [Number |-> Len(rows) + 1,
            OKNOK |-> res.status,
            Ordernumber |-> order,
            Counter |-> counter_val,
            Date |-> Date,
            Time |-> Time,
            Values |-> [i \in 1..12 |-> IF res.measurements[i] < 0 THEN 0
                                       ELSE res.measurements[i]],
            User |-> usr])

\* the rows of the file after _save_to_csv(result, counter_val); the values
\* are kept in hundredths, which is what round(float(val), 2) leaves of them
save_to_csv(rows, res, counter_val, usr, order) ==
    LET df_existing == read_csv(rows)
        next_number == Len(df_existing) + 1
        row == [Number |-> next_number,
                OKNOK |-> res.status,
                Ordernumber |-> order,
                Counter |-> counter_val,
                Date |-> Date,
                Time |-> Time,
                Values |-> res.measurements,
                User |-> usr]
    IN  Append(df_existing, row)

\* lines 200-223: the row built from the record as it was read
csv_row(df_existing, res, counter_val, usr, order) ==
    [Number |-> Len(df_existing) + 1,
     OKNOK |-> res.status,
     Ordernumber |-> order,
     Counter |-> counter_val,
     Date |-> Date,
     Time |-> Time,
     Values |-> res.measurements,
     User |-> usr]

-----------------------------------------------------------------------------
(* Inputs *)

Users == {<<"B", "o", "b">>, <<"0", "0", "7">>}
OrderNumbers == {<<"7", "4", "9", "2", "7", "4">>, <<"0", "4", "2">>}
PartNumbers == {"1568"}
CamIds == {1}

\* What detect_holes may return: the four holes of the demonstration part
\* (CameraController.generate_test_part: centres (170,136), (430,136),
\* (170,264), (430,264), radius 20) and further circles found on the part.
Hole(i) ==
    CASE i = 1 -> <<<<170, 136>>, 40, 40>>
      [] i = 2 -> <<<<430, 136>>, 40, 40>>
      [] i = 3 -> <<<<170, 264>>, 40, 40>>
      [] i = 4 -> <<<<430, 264>>, 40, 40>>
      [] OTHER -> <<<<300 + 60 * (i - 5), 200>>, 30, 30>>

\* the demonstration part seen with 0 to MaxHoles circles
DemoHoleLists == {[i \in 1..n |-> Hole(i)] : n \in 0..MaxHoles}

\* Other parts, the holes in the order HoughCircles returned them (by votes,
\* not by position), width = height = 2 * radius as detect_holes builds them:
\* holes of four sizes on the grid of the demonstration part, the same with
\* the last one undetected, a part lying askew with two holes under the
\* diameter band, a part whose upper holes overlap, the demonstration part
\* with a fifth circle found at its upper right corner, and a part turned by
\* 45 degrees (two holes on one level, two on one vertical)
OtherHoleLists ==
    { << <<<<430, 264>>, 36, 36>>, <<<<170, 136>>, 40, 40>>,
         <<<<430, 136>>, 38, 38>>, <<<<170, 264>>, 34, 34>> >>,
      << <<<<430, 264>>, 36, 36>>, <<<<170, 136>>, 40, 40>>,
         <<<<430, 136>>, 38, 38>> >>,
      << <<<<440, 140>>, 32, 32>>, <<<<180, 270>>, 42, 42>>,
         <<<<160, 130>>, 44, 44>>, <<<<420, 260>>, 30, 30>> >>,
      << <<<<200, 300>>, 40, 40>>, <<<<260, 150>>, 80, 80>>,
         <<<<200, 150>>, 80, 80>>, <<<<260, 300>>, 44, 44>> >>,
      << <<<<170, 136>>, 40, 40>>, <<<<430, 136>>, 40, 40>>,
         <<<<500, 100>>, 30, 30>>, <<<<170, 264>>, 40, 40>>,
         <<<<430, 264>>, 40, 40>> >>,
      << <<<<300, 300>>, 34, 34>>, <<<<400, 200>>, 36, 36>>,
         <<<<300, 100>>, 38, 38>>, <<<<200, 200>>, 40, 40>> >> }

HoleLists == DemoHoleLists \cup OtherHoleLists

\* INSPECTION_MAX_SPATTER unset, or set to a lower limit (config.py:165)
SpatterLimits == {MAX_SPATTER_COUNT, MAX_SPATTER_COUNT - 2}

\* no spatter, and each limit reached and passed by one
SpatterCounts == {0} \cup SpatterLimits \cup {m + 1 : m \in SpatterLimits}

\* On a present part, every hole list with every spatter count.  On an empty
\* fixture the detectors are not run: what they would return matters to no
\* line of the code, and the model keeps a few cases of it.
Frames ==
    {[present |-> TRUE, holes |-> hs, spatter |-> s] :
        hs \in HoleLists, s \in SpatterCounts}
    \cup
    {[present |-> FALSE, holes |-> hs, spatter |-> s] :
        hs \in {<<>>, [i \in 1..4 |-> Hole(i)]}, s \in {0, MAX_SPATTER_COUNT + 1}}

\* The frames of the session specifications: an empty fixture, a good part,
\* a part with a hole missing, a part with too much spatter
SessionFrames ==
    {fr \in Frames :
        /\ fr.holes \in DemoHoleLists
        /\ \/ ~fr.present /\ Len(fr.holes) = 0 /\ fr.spatter = 0
           \/ fr.present /\ Len(fr.holes) = 4
                         /\ fr.spatter \in {0, MAX_SPATTER_COUNT + 1}
           \/ fr.present /\ Len(fr.holes) = 3 /\ fr.spatter = 0}

\* detectors' output on generate_test_part(): the grey part lowers the mean
\* to about 214 < 240, so the part is present
TestPartFrames == {fr \in SessionFrames : fr.present}

NoFrame == [present |-> FALSE, holes |-> <<>>, spatter |-> 0]

NoResult ==
    [outcome |-> "none", via |-> "none", acquisition |-> "none",
     status |-> "none", defects |-> <<>>, measurements |-> ZeroMeasurements,
     image_path |-> "", part_number |-> "", cam_id |-> 0,
     imwrite_ok |-> FALSE]

\* uint8 intensities around the thresholds
Intensities == {0, 127, 128, 129, 239, 240, 241, 255}

\* the pixels of the greyscale images given to detect_part_presence
GrayImages ==
    UNION {[1..n -> Intensities] : n \in 1..MaxPixels}

\* Config.PART_DETECTION_THRESHOLD, or INSPECTION_PART_THRESHOLD (config.py:164)
Thresholds == {PART_DETECTION_THRESHOLD, 128}

\* hole lists given to calculate_seam_lengths: those of the frames, and two
\* parts whose upper holes have radii 15 and 20 with centres 100 apart, on a
\* level row and on a row rising by 60 over 80
SeamInputs ==
    HoleLists \cup
    { << <<<<100, 100>>, 30, 30>>, <<<<200, 100>>, 40, 40>>,
         <<<<100, 220>>, 40, 40>>, <<<<200, 220>>, 30, 30>> >>,
      << <<<<180, 100>>, 40, 40>>, <<<<100, 160>>, 30, 30>>,
         <<<<100, 300>>, 36, 36>>, <<<<180, 300>>, 36, 36>> >> }

\* contour areas in half pixels: none, 3.0 and 3.5, 99.5 and 100.0, and the
\* part itself
ContourAreas == {0, 6, 7, 199, 200, 5000}

\* what findContours and contourArea give on an image
ContourLists == UNION {[1..n -> ContourAreas] : n \in 0..MaxContours}

\* the vectors a part moves by between two frames
Shifts == {<<MaxShift, 0>>, <<0, -MaxShift>>, <<-25, 25>>}

\* holes with (dx, dy) added to every centre
Translate(holes, d) ==
    [i \in 1..Len(holes) |->
        <<<<holes[i][1][1] + d[1], holes[i][1][2] + d[2]>>, holes[i][2], holes[i][3]>>]

-----------------------------------------------------------------------------
(* Inspector *)

\* self.order_dir = os.path.join(output_dir, order_number), output_dir = "."
OrderDir(order) == PathJoin(".", Str(order))

\* Inspector.__init__ on a directory without a record: the record gets its
\* header and no rows
NewSession ==
    /\ user \in Users
    /\ order_number \in OrderNumbers
    /\ ok_counter = 0
    /\ nok_counter = 0
    /\ csv = <<>>
    /\ is_connected = FALSE
    /\ frame = NoFrame
    /\ result = NoResult
    /\ session = 1
    /\ done_ok = 0
    /\ done_nok = 0
    /\ raised = 0
    /\ calls = 0
    /\ requests = <<>>
    /\ max_spatter_count \in SpatterLimits
    /\ heap = <<>>
    /\ img = 0
    /\ annotated = 0
    /\ rows_at_creation = 0

\* no detection function has been called directly
NoDetection ==
    /\ gray = <<>>
    /\ mean_threshold = 0
    /\ part_present = <<>>
    /\ seam_holes = <<>>
    /\ seams = <<>>
    /\ offset = <<0, 0>>
    /\ contour_areas = <<>>
    /\ spatter_found = <<>>

\* no call is followed statement by statement
NoSteps ==
    /\ writers = {}
    /\ pc = <<>>
    /\ locals = <<>>

Init ==
    /\ NewSession
    /\ files = {}
    /\ NoDetection
    /\ NoSteps

\* an initialisation that writes the header whether the file exists or not
initialize_csv_always(exists, rows) == <<>>

\* _initialize_csv: the header alone is written when the file is missing; the
\* rows of the record after the call
initialize_csv(exists, rows) == IF ~exists THEN <<>> ELSE rows

\* Inspector(user, order_number) on the directory of the same order: the
\* record exists since the first Inspector on it; a new CameraController
NewInspector(u) ==
    /\ session < MaxSessions
    /\ user' = u
    /\ ok_counter' = 0
    /\ nok_counter' = 0
    /\ is_connected' = FALSE
    /\ frame' = NoFrame
    /\ result' = NoResult
    /\ session' = session + 1
    /\ done_ok' = 0
    /\ done_nok' = 0
    /\ raised' = 0
    /\ heap' = <<>>
    /\ img' = 0
    /\ annotated' = 0
    /\ csv' = initialize_csv(TRUE, csv)
    /\ rows_at_creation' = Len(initialize_csv(TRUE, csv))
    /\ UNCHANGED <<order_number, files, calls, requests, max_spatter_count>>
    /\ UNCHANGED detvars
    /\ UNCHANGED stepvars

\* an update whose NOK branch counts on the OK counter
UpdateCountersOkOnly(status) ==
    [ok |-> ok_counter + 1, nok |-> nok_counter, counter_val |-> ok_counter + 1]

\* an update that hands on the counter as it was before the increment
UpdateCountersStaleVal(status) ==
    IF status = "OK"
    THEN [ok |-> ok_counter + 1, nok |-> nok_counter, counter_val |-> ok_counter]
    ELSE [ok |-> ok_counter, nok |-> nok_counter + 1, counter_val |-> nok_counter]

\* lines 165-170: the counters after the update, and counter_val
UpdateCounters(status) ==
    IF status = "OK"
    THEN [ok |-> ok_counter + 1, nok |-> nok_counter, counter_val |-> ok_counter + 1]
    ELSE [ok |-> ok_counter, nok |-> nok_counter + 1, counter_val |-> nok_counter + 1]

\* The body of process_and_save on the detector outputs fr.  imwrite_ok: whether
\* cv2.imwrite could write (it returns False otherwise, and the return value is
\* not read); csv_ok: whether read_csv and to_csv succeeded (they raise
\* otherwise, before the file is changed).  The locals of the call (the result
\* dictionary r at line 151, the annotated image, the counters, the path) are
\* each computed once, from the state at the start of the call.
process_and_save(fr, part_number, cam_id, imwrite_ok, csv_ok, via, acquisition) ==
    \E r \in {Analyse(fr, max_spatter_count)} :
    \E drawn \in {Annotate(<<Picture(fr)>>, 1, fr, r)} :
    \E upd \in {UpdateCounters(r.status)} :
    \E output_path \in {get_next_filename(files, OrderDir(order_number), r.status,
                                          Str(order_number), part_number,
                                          upd.counter_val, cam_id)} :
        /\ frame' = fr
        /\ heap' = drawn.heap
        /\ img' = 1
        /\ annotated' = drawn.ref
        /\ ok_counter' = upd.ok
        /\ nok_counter' = upd.nok
        /\ files' = IF imwrite_ok THEN files \cup {output_path} ELSE files
        /\ csv' = IF csv_ok
                  THEN save_to_csv(csv, r, upd.counter_val, user, order_number)
                  ELSE csv
        /\ result' = [outcome |-> IF csv_ok THEN "returned" ELSE "raised",
                      via |-> via, acquisition |-> acquisition,
                      status |-> IF csv_ok THEN r.status ELSE "none",
                      defects |-> IF csv_ok THEN r.defects ELSE <<>>,
                      measurements |-> IF csv_ok THEN r.measurements
                                      ELSE ZeroMeasurements,
                      image_path |-> output_path,
                      part_number |-> part_number, cam_id |-> cam_id,
                      imwrite_ok |-> imwrite_ok]
        /\ done_ok' = IF csv_ok /\ r.status = "OK" THEN done_ok + 1 ELSE done_ok
        /\ done_nok' = IF csv_ok /\ r.status = "NOK" THEN done_nok + 1 ELSE done_nok
        /\ raised' = IF csv_ok THEN raised ELSE raised + 1
        /\ calls' = calls + 1
        /\ UNCHANGED <<user, order_number, session, requests, max_spatter_count, rows_at_creation>>
        /\ UNCHANGED detvars
        /\ UNCHANGED stepvars

\* the model follows an order directory for at most max_calls calls
CallsLeft(max_calls) == calls < max_calls

ProcessAndSave(fr, part_number, cam_id, imwrite_ok, csv_ok) ==
    /\ CallsLeft(MaxCalls)
    /\ process_and_save(fr, part_number, cam_id, imwrite_ok, csv_ok,
                        "process_and_save", "given")
    /\ UNCHANGED is_connected

\* CameraController.capture_image.  connect_ok: cap.isOpened() in connect();
\* read_ok: ret of cap.read() (an exception of read is caught and counts as a
\* failed read).  How the image was acquired, and whether None is returned:
\* every path of the code returns an image, the synthetic test part when the
\* camera fails.
capture_image(connect_ok, read_ok) ==
    IF ~is_connected /\ ~connect_ok
    THEN [none |-> FALSE, acquisition |-> "connect_failed", connected |-> FALSE]
    ELSE IF read_ok
         THEN [none |-> FALSE, acquisition |-> "live", connected |-> TRUE]
         ELSE [none |-> FALSE, acquisition |-> "read_failed", connected |-> TRUE]

\* capture_and_process; fr is what the detectors return on the captured image
CaptureAndProcess(part_number, cam_id, connect_ok, read_ok, fr, imwrite_ok, csv_ok) ==
    LET got == capture_image(connect_ok, read_ok)
    IN  /\ CallsLeft(MaxCalls)
        /\ got.acquisition # "live" => fr \in TestPartFrames
        /\ is_connected' = got.connected
        /\ IF ~got.none
           THEN process_and_save(fr, part_number, cam_id, imwrite_ok, csv_ok,
                                 "capture_and_process", got.acquisition)
           ELSE /\ result' = [NoResult EXCEPT !.outcome = "returned",
                                              !.via = "capture_and_process",
                                              !.acquisition = got.acquisition,
                                              !.status = "ERROR"]
                /\ frame' = NoFrame
                /\ UNCHANGED <<user, order_number, ok_counter, nok_counter, files,
                               csv, session, done_ok, done_nok, raised, calls, requests,
                               max_spatter_count, rows_at_creation, heap, img, annotated>>
                /\ UNCHANGED detvars
                /\ UNCHANGED stepvars

\* process_and_save on any frame of the model, early in a directory's life
ClassifyFrame(fr, part_number, cam_id, imwrite_ok, csv_ok) ==
    /\ CallsLeft(MaxClassifyCalls)
    /\ process_and_save(fr, part_number, cam_id, imwrite_ok, csv_ok,
                        "process_and_save", "given")
    /\ UNCHANGED is_connected

-----------------------------------------------------------------------------
(* get_next_filename called directly, on a directory holding any files *)

NamingDir == OrderDir(order_number)

\* the path get_next_filename tries for suffix k; k = 0 is the base path
CandidatePath(status, k) ==
    LET stem == NameWithoutExt(status, Str(order_number), "1568", 1, 1)
    IN  PathJoin(NamingDir,
                 IF k = 0 THEN stem \o ".jpg"
                 ELSE stem \o "_" \o ToString(k) \o ".jpg")

NamePool(order) ==
    {PathJoin(OrderDir(order),
              IF k = 0 THEN NameWithoutExt(st, Str(order), "1568", 1, 1) \o ".jpg"
              ELSE NameWithoutExt(st, Str(order), "1568", 1, 1)
                       \o "_" \o ToString(k) \o ".jpg") :
        st \in {"OK", "NOK"}, k \in 0..MaxSuffix}

InitNaming ==
    /\ NewSession
    /\ max_spatter_count = MAX_SPATTER_COUNT
    /\ files \in SUBSET NamePool(order_number)
    /\ NoDetection
    /\ NoSteps

\* a get_next_filename that reserves the name it returns by creating the file
RequestFilenameReserving(status) ==
    LET path == get_next_filename(files, NamingDir, status,
                                  Str(order_number), "1568", 1, 1)
    IN  /\ Len(requests) < MaxRequests
        /\ requests' = Append(requests, [status |-> status, path |-> path,
                                         fs |-> files, created |-> FALSE])
        /\ files' = files \cup {path}
        /\ UNCHANGED <<user, order_number, ok_counter, nok_counter, csv,
                       is_connected, frame, result, session, done_ok, done_nok,
                       raised, calls, max_spatter_count, rows_at_creation, heap, img, annotated>>
        /\ UNCHANGED detvars
        /\ UNCHANGED stepvars

\* output_path = get_next_filename(...): reads the directory, changes nothing
RequestFilename(status) ==
    /\ Len(requests) < MaxRequests
    /\ requests' = Append(requests,
                          [status |-> status,
                           path |-> get_next_filename(files, NamingDir, status,
                                                      Str(order_number), "1568", 1, 1),
                           fs |-> files,
                           created |-> FALSE])
    /\ UNCHANGED <<user, order_number, ok_counter, nok_counter, files, csv,
                   is_connected, frame, result, session, done_ok, done_nok,
                   raised, calls, max_spatter_count, rows_at_creation, heap, img, annotated>>
    /\ UNCHANGED detvars
    /\ UNCHANGED stepvars

\* the caller writes the file it asked a name for (cv2.imwrite(output_path, ...))
Materialize ==
    /\ requests # <<>>
    /\ ~requests[Len(requests)].created
    /\ files' = files \cup {requests[Len(requests)].path}
    /\ requests' = [requests EXCEPT ![Len(requests)].created = TRUE]
    /\ UNCHANGED <<user, order_number, ok_counter, nok_counter, csv,
                   is_connected, frame, result, session, done_ok, done_nok,
                   raised, calls, max_spatter_count, rows_at_creation, heap, img, annotated>>
    /\ UNCHANGED detvars
    /\ UNCHANGED stepvars

NextNaming ==
    \/ \E st \in {"OK", "NOK"} : RequestFilename(st)
    \/ Materialize

SpecNaming == InitNaming /\ [][NextNaming]_vars

Next ==
    \/ \E u \in Users : NewInspector(u)
    \/ \E fr \in SessionFrames, pn \in PartNumbers, cam \in CamIds,
          iw \in BOOLEAN, cs \in BOOLEAN :
            ProcessAndSave(fr, pn, cam, iw, cs)

Spec == Init /\ [][Next]_vars

NextCapture ==
    \/ \E u \in Users : NewInspector(u)
    \/ \E pn \in PartNumbers, cam \in CamIds, co \in BOOLEAN, rd \in BOOLEAN,
          fr \in SessionFrames, iw \in BOOLEAN, cs \in BOOLEAN :
            CaptureAndProcess(pn, cam, co, rd, fr, iw, cs)

SpecCapture == Init /\ [][NextCapture]_vars

\* one session of one user on one order, under either spatter limit
InitClassify ==
    /\ Init
    /\ user = <<"B", "o", "b">>
    /\ order_number = <<"0", "4", "2">>

NextClassify ==
    \E fr \in Frames, pn \in PartNumbers, cam \in CamIds,
       iw \in BOOLEAN, cs \in BOOLEAN :
        ClassifyFrame(fr, pn, cam, iw, cs)

SpecClassify == InitClassify /\ [][NextClassify]_vars

-----------------------------------------------------------------------------
(* The detection functions called directly *)

\* a session that is not used: the detection functions read none of it
IdleSession ==
    /\ NewSession
    /\ user = <<"B", "o", "b">>
    /\ order_number = <<"0", "4", "2">>
    /\ max_spatter_count = MAX_SPATTER_COUNT
    /\ files = {}
    /\ NoSteps

InitPresence ==
    /\ IdleSession
    /\ gray \in GrayImages
    /\ mean_threshold \in Thresholds
    /\ part_present = <<>>
    /\ seam_holes = <<>>
    /\ seams = <<>>
    /\ offset = <<0, 0>>
    /\ contour_areas = <<>>
    /\ spatter_found = <<>>

\* part_present = detect_part_presence(gray, mean_threshold)
DetectPartPresence ==
    /\ part_present = <<>>
    /\ part_present' = <<detect_part_presence(gray, mean_threshold)>>
    /\ UNCHANGED <<gray, mean_threshold, seam_holes, seams, offset,
                   contour_areas, spatter_found>>
    /\ UNCHANGED sessvars
    /\ UNCHANGED stepvars

NextPresence == DetectPartPresence

SpecPresence == InitPresence /\ [][NextPresence]_vars

InitSeams ==
    /\ IdleSession
    /\ gray = <<>>
    /\ mean_threshold = 0
    /\ part_present = <<>>
    /\ seam_holes \in SeamInputs
    /\ seams = <<>>
    /\ offset = <<0, 0>>
    /\ contour_areas = <<>>
    /\ spatter_found = <<>>

\* seams = calculate_seam_lengths(seam_holes), the first call
SeamLengths ==
    /\ seams = <<>>
    /\ seams' = calculate_seam_lengths(seam_holes)
    /\ UNCHANGED <<gray, mean_threshold, part_present, seam_holes, offset,
                   contour_areas, spatter_found>>
    /\ UNCHANGED sessvars
    /\ UNCHANGED stepvars

\* the part has moved by d: calculate_seam_lengths on the moved holes
SeamLengthsMoved(d) ==
    /\ seams # <<>>
    /\ offset[1] + d[1] \in -MaxShift..MaxShift
    /\ offset[2] + d[2] \in -MaxShift..MaxShift
    /\ offset' = <<offset[1] + d[1], offset[2] + d[2]>>
    /\ seam_holes' = Translate(seam_holes, d)
    /\ seams' = calculate_seam_lengths(Translate(seam_holes, d))
    /\ UNCHANGED <<gray, mean_threshold, part_present, contour_areas, spatter_found>>
    /\ UNCHANGED sessvars
    /\ UNCHANGED stepvars

\* the holes with those at positions i and i + 1 exchanged
Swapped(holes, i) ==
    [k \in 1..Len(holes) |->
        IF k = i THEN holes[i + 1] ELSE IF k = i + 1 THEN holes[i] ELSE holes[k]]

\* the same holes come in another order (HoughCircles orders its circles by
\* votes): calculate_seam_lengths on the reordered list
SeamLengthsReordered(i) ==
    /\ seams # <<>>
    /\ i \in 1..(Len(seam_holes) - 1)
    /\ seam_holes' = Swapped(seam_holes, i)
    /\ seams' = calculate_seam_lengths(Swapped(seam_holes, i))
    /\ UNCHANGED <<gray, mean_threshold, part_present, offset,
                   contour_areas, spatter_found>>
    /\ UNCHANGED sessvars
    /\ UNCHANGED stepvars

NextSeams ==
    \/ SeamLengths
    \/ \E d \in Shifts : SeamLengthsMoved(d)

SpecSeams == InitSeams /\ [][NextSeams]_vars

\* calculate_seam_lengths on the same holes in every order
NextOrders ==
    \/ SeamLengths
    \/ \E i \in 1..(MaxHoles - 1) : SeamLengthsReordered(i)

SpecOrders == InitSeams /\ [][NextOrders]_vars

-----------------------------------------------------------------------------
(* _save_to_csv statement by statement, with one or more Inspector processes *)
(* (one per station) appending to the record of the same order               *)

\* the user of the Inspector process w
WriterUser(w) == <<"U">> \o IntToChars(w)

\* the results handed to _save_to_csv
AppendResults ==
    {[status |-> st, measurements |-> ZeroMeasurements] : st \in {"OK", "NOK"}}

InitWriters ==
    /\ NewSession
    /\ user = <<"B", "o", "b">>
    /\ order_number = <<"0", "4", "2">>
    /\ max_spatter_count = MAX_SPATTER_COUNT
    /\ files = {}
    /\ NoDetection
    /\ writers \in {1..n : n \in 1..MaxWriters}
    /\ pc = [w \in writers |-> "idle"]
    /\ locals = [w \in writers |->
                    [ok_counter |-> 0, nok_counter |-> 0, df_existing |-> <<>>,
                     row |-> <<>>, appended |-> 0]]

\* a read that finds an empty record whatever the file holds
ReadRecordEmpty(w, res) ==
    /\ pc[w] = "idle"
    /\ CallsLeft(MaxAppends)
    /\ calls' = calls + 1
    /\ pc' = [pc EXCEPT ![w] = "read"]
    /\ locals' = [locals EXCEPT ![w].df_existing = <<>>,
                                ![w].row = csv_row(<<>>, res, 1, WriterUser(w),
                                                   order_number)]
    /\ UNCHANGED <<user, order_number, ok_counter, nok_counter, files, csv,
                   is_connected, frame, result, session, done_ok, done_nok, raised,
                   requests, max_spatter_count, rows_at_creation, heap, img, annotated, writers>>
    /\ UNCHANGED detvars

\* lines 165-170 and 199-223 in the process w: the counter of the status goes
\* up, the record is read and the row is built from what was read
ReadRecord(w, res) ==
    \E df_existing \in {read_csv(csv)} :
    \E counter_val \in {IF res.status = "OK" THEN locals[w].ok_counter + 1
                         ELSE locals[w].nok_counter + 1} :
        /\ pc[w] = "idle"
        /\ CallsLeft(MaxAppends)
        /\ calls' = calls + 1
        /\ pc' = [pc EXCEPT ![w] = "read"]
        /\ locals' = [locals EXCEPT
                         ![w].ok_counter = IF res.status = "OK" THEN @ + 1 ELSE @,
                         ![w].nok_counter = IF res.status = "OK" THEN @ ELSE @ + 1,
                         ![w].df_existing = df_existing,
                         ![w].row = csv_row(df_existing, res, counter_val,
                                            WriterUser(w), order_number)]
        /\ UNCHANGED <<user, order_number, ok_counter, nok_counter, files, csv,
                       is_connected, frame, result, session, done_ok, done_nok,
                       raised, requests, max_spatter_count, rows_at_creation, heap, img, annotated,
                       writers>>
        /\ UNCHANGED detvars

\* lines 226-227 in the process w: the record is rewritten as the rows read
\* plus the new row
WriteRecord(w) ==
    /\ pc[w] = "read"
    /\ csv' = Append(locals[w].df_existing, locals[w].row)
    /\ pc' = [pc EXCEPT ![w] = "idle"]
    /\ locals' = [locals EXCEPT ![w].appended = @ + 1]
    /\ UNCHANGED <<user, order_number, ok_counter, nok_counter, files,
                   is_connected, frame, result, session, done_ok, done_nok, raised,
                   calls, requests, max_spatter_count, rows_at_creation, heap, img, annotated,
                   writers>>
    /\ UNCHANGED detvars

NextWriters ==
    \/ \E w \in writers, res \in AppendResults : ReadRecord(w, res)
    \/ \E w \in writers : WriteRecord(w)

SpecWriters == InitWriters /\ [][NextWriters]_vars

-----------------------------------------------------------------------------
(* process_and_save statement by statement, in one Inspector (process 1) *)

NoLocals ==
    [r |-> NewResult, counter_val |-> 0, output_path |-> "",
     part_number |-> "", cam_id |-> 0, imwrite_ok |-> FALSE]

InitSteps ==
    /\ NewSession
    /\ user = <<"B", "o", "b">>
    /\ order_number = <<"0", "4", "2">>
    /\ max_spatter_count = MAX_SPATTER_COUNT
    /\ files = {}
    /\ NoDetection
    /\ writers = {1}
    /\ pc = [w \in writers |-> "idle"]
    /\ locals = [w \in writers |-> NoLocals]

\* lines 88-162: classification of the frame and annotation of a copy
StepClassify(fr, part_number, cam_id) ==
    \E r \in {Analyse(fr, max_spatter_count)} :
    \E drawn \in {Annotate(<<Picture(fr)>>, 1, fr, r)} :
        /\ pc[1] = "idle"
        /\ CallsLeft(MaxCalls)
        /\ calls' = calls + 1
        /\ frame' = fr
        /\ heap' = drawn.heap
        /\ img' = 1
        /\ annotated' = drawn.ref
        /\ locals' = [locals EXCEPT ![1] = [NoLocals EXCEPT !.r = r,
                                                            !.part_number = part_number,
                                                            !.cam_id = cam_id]]
        /\ pc' = [pc EXCEPT ![1] = "classified"]
        /\ UNCHANGED <<user, order_number, ok_counter, nok_counter, files, csv,
                       is_connected, result, session, done_ok, done_nok, raised,
                       requests, max_spatter_count, rows_at_creation, writers>>
        /\ UNCHANGED detvars

\* lines 165-170: the counter of the status goes up
StepCount ==
    \E upd \in {UpdateCounters(locals[1].r.status)} :
        /\ pc[1] = "classified"
        /\ ok_counter' = upd.ok
        /\ nok_counter' = upd.nok
        /\ locals' = [locals EXCEPT ![1].counter_val = upd.counter_val]
        /\ pc' = [pc EXCEPT ![1] = "counted"]
        /\ UNCHANGED <<user, order_number, files, csv, is_connected, frame, result,
                       session, done_ok, done_nok, raised, calls, requests,
                       max_spatter_count, rows_at_creation, heap, img, annotated,
                       writers>>
        /\ UNCHANGED detvars

\* lines 173-176: output_path = get_next_filename(...)
StepName ==
    /\ pc[1] = "counted"
    /\ locals' = [locals EXCEPT ![1].output_path =
                      get_next_filename(files, OrderDir(order_number),
                                        locals[1].r.status, Str(order_number),
                                        locals[1].part_number,
                                        locals[1].counter_val, locals[1].cam_id)]
    /\ pc' = [pc EXCEPT ![1] = "named"]
    /\ UNCHANGED <<user, order_number, ok_counter, nok_counter, files, csv,
                   is_connected, frame, result, session, done_ok, done_nok, raised,
                   calls, requests, max_spatter_count, rows_at_creation, heap, img,
                   annotated, writers>>
    /\ UNCHANGED detvars

\* lines 177-178: cv2.imwrite(output_path, annotated), its return value unread
StepImwrite(imwrite_ok) ==
    /\ pc[1] = "named"
    /\ files' = IF imwrite_ok THEN files \cup {locals[1].output_path} ELSE files
    /\ locals' = [locals EXCEPT ![1].imwrite_ok = imwrite_ok]
    /\ pc' = [pc EXCEPT ![1] = "written"]
    /\ UNCHANGED <<user, order_number, ok_counter, nok_counter, csv, is_connected,
                   frame, result, session, done_ok, done_nok, raised, calls,
                   requests, max_spatter_count, rows_at_creation, heap, img,
                   annotated, writers>>
    /\ UNCHANGED detvars

\* the outcome of the call that ends in process 1
StepResult(csv_ok) ==
    [outcome |-> IF csv_ok THEN "returned" ELSE "raised",
     via |-> "process_and_save", acquisition |-> "given",
     status |-> IF csv_ok THEN locals[1].r.status ELSE "none",
     defects |-> IF csv_ok THEN locals[1].r.defects ELSE <<>>,
     measurements |-> IF csv_ok THEN locals[1].r.measurements ELSE ZeroMeasurements,
     image_path |-> locals[1].output_path,
     part_number |-> locals[1].part_number, cam_id |-> locals[1].cam_id,
     imwrite_ok |-> locals[1].imwrite_ok]

\* an append that takes the increment back when it raises
StepAppendRollback(csv_ok) ==
    /\ pc[1] = "written"
    /\ csv' = IF csv_ok
              THEN save_to_csv(csv, locals[1].r, locals[1].counter_val, user,
                               order_number)
              ELSE csv
    /\ ok_counter' = IF ~csv_ok /\ locals[1].r.status = "OK"
                     THEN ok_counter - 1 ELSE ok_counter
    /\ nok_counter' = IF ~csv_ok /\ locals[1].r.status = "NOK"
                      THEN nok_counter - 1 ELSE nok_counter
    /\ result' = StepResult(csv_ok)
    /\ done_ok' = IF csv_ok /\ locals[1].r.status = "OK" THEN done_ok + 1 ELSE done_ok
    /\ done_nok' = IF csv_ok /\ locals[1].r.status = "NOK"
                   THEN done_nok + 1 ELSE done_nok
    /\ raised' = IF csv_ok THEN raised ELSE raised + 1
    /\ pc' = [pc EXCEPT ![1] = "idle"]
    /\ UNCHANGED <<user, order_number, files, is_connected, frame, session, calls,
                   requests, max_spatter_count, rows_at_creation, heap, img,
                   annotated, writers, locals>>
    /\ UNCHANGED detvars

\* lines 181-188: self._save_to_csv(result, counter_val), which returns or
\* raises (read_csv, to_csv), and the end of the call
StepAppend(csv_ok) ==
    /\ pc[1] = "written"
    /\ csv' = IF csv_ok
              THEN save_to_csv(csv, locals[1].r, locals[1].counter_val, user,
                               order_number)
              ELSE csv
    /\ result' = StepResult(csv_ok)
    /\ done_ok' = IF csv_ok /\ locals[1].r.status = "OK" THEN done_ok + 1 ELSE done_ok
    /\ done_nok' = IF csv_ok /\ locals[1].r.status = "NOK"
                   THEN done_nok + 1 ELSE done_nok
    /\ raised' = IF csv_ok THEN raised ELSE raised + 1
    /\ pc' = [pc EXCEPT ![1] = "idle"]
    /\ UNCHANGED <<user, order_number, ok_counter, nok_counter, files, is_connected,
                   frame, session, calls, requests, max_spatter_count,
                   rows_at_creation, heap, img, annotated, writers, locals>>
    /\ UNCHANGED detvars

NextSteps ==
    \/ \E fr \in SessionFrames, pn \in PartNumbers, cam \in CamIds :
          StepClassify(fr, pn, cam)
    \/ StepCount
    \/ StepName
    \/ \E iw \in BOOLEAN : StepImwrite(iw)
    \/ \E cs \in BOOLEAN : StepAppend(cs)

SpecSteps == InitSteps /\ [][NextSteps]_vars

InitSpatter ==
    /\ IdleSession
    /\ gray = <<>>
    /\ mean_threshold = 0
    /\ part_present = <<>>
    /\ seam_holes = <<>>
    /\ seams = <<>>
    /\ offset = <<0, 0>>
    /\ contour_areas \in ContourLists
    /\ spatter_found = <<>>

\* detect_spatter(gray), on the contours found in gray
DetectSpatter ==
    /\ spatter_found = <<>>
    /\ spatter_found' = <<detect_spatter(contour_areas)>>
    /\ UNCHANGED <<gray, mean_threshold, part_present, seam_holes, seams, offset,
                   contour_areas>>
    /\ UNCHANGED sessvars
    /\ UNCHANGED stepvars

NextSpatter == DetectSpatter

SpecSpatter == InitSpatter /\ [][NextSpatter]_vars

-----------------------------------------------------------------------------
(* Claims *)

\* a step that is one call of process_and_save
IsCall == calls' = calls + 1

\* C1 (step): within a session no step lowers a counter, and a call that
\* returns moves exactly the counter of its status, by one.
C1_CounterStep ==
    session' = session =>
        /\ ok_counter' >= ok_counter
        /\ nok_counter' >= nok_counter
        /\ (IsCall /\ result'.outcome = "returned") =>
              \/ /\ result'.status = "OK"
                 /\ ok_counter' = ok_counter + 1
                 /\ nok_counter' = nok_counter
              \/ /\ result'.status = "NOK"
                 /\ nok_counter' = nok_counter + 1
                 /\ ok_counter' = ok_counter

\* C1: in a session whose calls all completed, N = done_ok + done_nok calls
\* with k = done_nok of them NOK leave ok_counter = N - k and nok_counter = k,
\* in whatever order the OK and NOK frames came; each completed call adds one
\* to exactly one counter and nothing lowers or resets a counter.  (With calls
\* that raised, the counters count those calls too.)
C1_CountersMatchCalls ==
    /\ [](/\ raised = 0 => /\ ok_counter = (done_ok + done_nok) - done_nok
                           /\ nok_counter = done_nok
          /\ ok_counter + nok_counter = done_ok + done_nok + raised
          /\ ok_counter >= done_ok
          /\ nok_counter >= done_nok)
    /\ [][C1_CounterStep]_vars

C1_Witness ==
    /\ done_ok = 1 /\ done_nok = 1 /\ raised = 0
    /\ ok_counter = 1 /\ nok_counter = 1

\* C2: a present part whose detected hole count differs from 4, fewer or
\* more, is classified NOK with the defect "Missing holes: expected 4, found Y".
C2_HoleCountEnforced ==
    (/\ result.outcome = "returned"
     /\ frame.present
     /\ Len(frame.holes) # 4) =>
        /\ result.status = "NOK"
        /\ \E i \in 1..Len(result.defects) :
              result.defects[i] = "Missing holes: expected 4, found "
                                      \o ToString(Len(frame.holes))

\* C3: when the camera delivers no frame (connect or read fails),
\* capture_and_process returns status ERROR and records nothing.
C3_AcquisitionFailureReported ==
    [][result'.acquisition \in {"connect_failed", "read_failed"} =>
          /\ result'.status = "ERROR"
          /\ UNCHANGED <<ok_counter, nok_counter, csv, files>>]_vars

\* C4: a call that returns an OK/NOK result has written the annotated image
\* to result.image_path, appended exactly one row and incremented one counter.
C4_AllSideEffects ==
    [][(IsCall /\ result'.outcome = "returned") =>
          /\ result'.image_path \in files'
          /\ Len(csv') = Len(csv) + 1
          /\ ok_counter' + nok_counter' = ok_counter + nok_counter + 1]_vars

\* C5: every append adds exactly one row, last, numbered one more than the
\* previous last row (1 in an empty record), and leaves every earlier row in
\* place with all its field values.
C5_AppendOnly ==
    [][csv' # csv =>
          /\ Len(csv') = Len(csv) + 1
          /\ csv'[Len(csv')].Number =
                IF csv = <<>> THEN 1 ELSE csv[Len(csv)].Number + 1
          /\ \A i \in 1..Len(csv) : csv'[i] = csv[i]]_vars

\* C6: no call writes its image to a path that existed before the call, also
\* in a later session on the same directory, and no file disappears.
C6_NoOverwrite ==
    [][IsCall => /\ result'.image_path \notin files
                 /\ files \subseteq files'
                 /\ files' \subseteq files \cup {result'.image_path}]_vars

C6_Witness ==
    /\ session = 2
    /\ result.imwrite_ok
    /\ Cardinality(files) = 2
    /\ \E st \in {"OK", "NOK"} :
          /\ PathJoin(OrderDir(order_number),
                      st \o "_" \o Str(order_number) \o "_1568Count1_CAM1.jpg")
                \in files
          /\ result.image_path =
                PathJoin(OrderDir(order_number),
                         st \o "_" \o Str(order_number) \o "_1568Count1_CAM1_1.jpg")

\* two requests in a row, for the same arguments
SameArgs(i) == requests[i].status = requests[i + 1].status

LargestSuffix == MaxSuffix + MaxRequests + 1

\* C7 as stated: a repeated request returns the same base path while the base
\* path has not been created, and the base name with "_1" once it has.
C7_SecondRequestIsSuffix1 ==
    \A i \in 1..(Len(requests) - 1) :
        (SameArgs(i) /\ requests[i].path = CandidatePath(requests[i].status, 0)) =>
            IF requests[i].created
            THEN requests[i + 1].path = CandidatePath(requests[i].status, 1)
            ELSE requests[i + 1].path = requests[i].path

\* C7 (amended): a request changes no file, so a repeated request with nothing
\* created in between returns the same path; once the base path has been
\* created the next request returns the base name with the smallest free
\* suffix "_k", k >= 1, which is "_1" when no "_1" file exists.
C7_IdempotentUntilCreated ==
    \A i \in 1..(Len(requests) - 1) :
        SameArgs(i) =>
            LET a == requests[i]
                b == requests[i + 1]
            IN  IF ~a.created
                THEN b.fs = a.fs /\ b.path = a.path
                ELSE /\ b.fs = a.fs \cup {a.path}
                     /\ a.path = CandidatePath(a.status, 0) =>
                           /\ \E k \in 1..LargestSuffix :
                                 /\ b.path = CandidatePath(a.status, k)
                                 /\ b.path \notin b.fs
                                 /\ \A j \in 1..(k - 1) :
                                       CandidatePath(a.status, j) \in b.fs
                           /\ CandidatePath(a.status, 1) \notin a.fs =>
                                 b.path = CandidatePath(a.status, 1)

C7_Witness ==
    /\ Len(requests) = 3
    /\ SameArgs(1) /\ SameArgs(2)
    /\ requests[1].path = CandidatePath(requests[1].status, 0)
    /\ ~requests[1].created
    /\ requests[2].path = requests[1].path
    /\ requests[2].created
    /\ requests[3].path = CandidatePath(requests[1].status, 1)

\* C8: on any set of existing files get_next_filename returns a path that does
\* not exist: the base path when it is free, else the base name with "_k" for
\* the smallest k >= 1 whose path is free (gaps are filled).
C8_FirstFreePath ==
    \A i \in 1..Len(requests) :
        LET e == requests[i]
        IN  /\ e.path \notin e.fs
            /\ IF CandidatePath(e.status, 0) \notin e.fs
               THEN e.path = CandidatePath(e.status, 0)
               ELSE \E k \in 1..LargestSuffix :
                       /\ e.path = CandidatePath(e.status, k)
                       /\ \A j \in 1..(k - 1) : CandidatePath(e.status, j) \in e.fs

C8_Witness ==
    \E i \in 1..Len(requests) :
        LET e == requests[i]
        IN  /\ CandidatePath(e.status, 0) \in e.fs
            /\ CandidatePath(e.status, 1) \notin e.fs
            /\ CandidatePath(e.status, 2) \in e.fs
            /\ e.path = CandidatePath(e.status, 1)

\* C9: a present part with exactly 4 holes and no spatter gets status OK and
\* no defects, and the call adds one to ok_counter and leaves nok_counter.
C9_GoodPartIsOk ==
    [][(/\ IsCall
        /\ frame'.present
        /\ Len(frame'.holes) = 4
        /\ frame'.spatter = 0) =>
          /\ ok_counter' = ok_counter + 1
          /\ nok_counter' = nok_counter
          /\ result'.outcome = "returned" =>
                /\ result'.status = "OK"
                /\ result'.defects = <<>>]_vars

C9_Witness ==
    /\ frame.present /\ Len(frame.holes) = 4 /\ frame.spatter = 0
    /\ result.outcome = "returned" /\ result.status = "OK"
    /\ ok_counter = 1 /\ nok_counter = 0

\* C10: a present part with 0 to 3 holes is processed without failing: status
\* NOK, the defect "Missing holes: expected 4, found Y" with Y the detected
\* count, the seam slots Value5, Value6, Value11, Value12 are 0, and
\* calculate_seam_lengths returns (0, 0, 0, 0) on those holes.
C10_FewHolesIsNok ==
    (/\ frame.present
     /\ Len(frame.holes) < 4) =>
        /\ result.outcome = "returned" =>
              /\ result.status = "NOK"
              /\ \E i \in 1..Len(result.defects) :
                    result.defects[i] = "Missing holes: expected 4, found "
                                            \o ToString(Len(frame.holes))
              /\ \A slot \in {5, 6, 11, 12} : result.measurements[slot] = 0
        /\ calculate_seam_lengths(frame.holes) = <<0, 0, 0, 0>>

C10_Witness ==
    /\ frame.present /\ Len(frame.holes) = 3
    /\ result.outcome = "returned" /\ result.status = "NOK"
    /\ result.measurements[1] > 0
    /\ nok_counter = 1

\* the text of a spatter defect for the count n
IsSpatterDefect(d) ==
    \E n \in 0..(MAX_SPATTER_COUNT + 1) :
        d = "Excessive spatter: " \o ToString(n) \o " detected"

\* C11: for a present part, a spatter count above the configured
\* Config.MAX_SPATTER_COUNT gives status NOK for every hole count, with a
\* defect "Excessive spatter: N detected" for the count N; a count up to the
\* maximum, the maximum included, records no spatter defect.
C11_SpatterOverLimitIsNok ==
    (result.outcome = "returned" /\ frame.present) =>
        /\ frame.spatter > max_spatter_count =>
              /\ result.status = "NOK"
              /\ \E i \in 1..Len(result.defects) :
                    result.defects[i] = "Excessive spatter: "
                        \o ToString(frame.spatter) \o " detected"
        /\ frame.spatter <= max_spatter_count =>
              \A i \in 1..Len(result.defects) : ~IsSpatterDefect(result.defects[i])

C11_Witness ==
    /\ result.outcome = "returned"
    /\ frame.present /\ Len(frame.holes) = 5
    /\ max_spatter_count = 3 /\ frame.spatter = 4
    /\ result.status = "NOK"
    /\ result.defects = <<"Excessive spatter: 4 detected">>

\* C12: a returned result has status NOK exactly when its defects list is
\* non-empty and OK otherwise, never another value, and the same status is in
\* the result, at the head of the image file name and in the OK/NOK column
\* of the row appended for it.
C12_StatusMatchesDefects ==
    result.outcome = "returned" =>
        /\ result.status \in {"OK", "NOK"}
        /\ (result.status = "NOK") <=> (result.defects # <<>>)
        /\ csv # <<>>
        /\ csv[Len(csv)].OKNOK = result.status
        /\ \E n \in 1..calls, k \in 0..calls :
              result.image_path =
                  "./" \o Str(order_number) \o "/" \o result.status \o "_"
                      \o Str(order_number) \o "_" \o result.part_number
                      \o "Count" \o ToString(n) \o "_CAM" \o ToString(result.cam_id)
                      \o (IF k = 0 THEN "" ELSE "_" \o ToString(k)) \o ".jpg"

C12_Witness ==
    /\ result.outcome = "returned"
    /\ result.status = "NOK"
    /\ Len(result.defects) = 2
    /\ csv[Len(csv)].OKNOK = "NOK"
    /\ result.image_path = "./749274/NOK_749274_1568Count1_CAM1.jpg"

\* C13: the image of a returned call is named
\* {status}_{order}_{part}Count{n}_CAM{cam}.jpg in the order's directory, with
\* a "_k" only when that name is taken, where n is the counter of the call's
\* status after its increment (the number of frames of that status in the
\* session when every call completed), and the appended row has Counter n.
C13_NameCarriesCounter ==
    [][(IsCall /\ result'.outcome = "returned") =>
          LET st == result'.status
              n == IF st = "OK" THEN ok_counter' ELSE nok_counter'
              stem == "./" \o Str(order_number) \o "/" \o st \o "_"
                          \o Str(order_number) \o "_" \o result'.part_number
                          \o "Count" \o ToString(n)
                          \o "_CAM" \o ToString(result'.cam_id)
          IN  /\ n = (IF st = "OK" THEN ok_counter ELSE nok_counter) + 1
              /\ raised' = 0 => n = (IF st = "OK" THEN done_ok' ELSE done_nok')
              /\ IF (stem \o ".jpg") \notin files
                 THEN result'.image_path = stem \o ".jpg"
                 ELSE \E k \in 1..(Cardinality(files) + 1) :
                         result'.image_path = stem \o "_" \o ToString(k) \o ".jpg"
              /\ csv'[Len(csv')].Counter = n]_vars

C13_Witness ==
    /\ result.outcome = "returned"
    /\ nok_counter = 2 /\ done_nok = 2
    /\ result.image_path = "./042/NOK_042_1568Count2_CAM1.jpg"
    /\ csv[Len(csv)].Counter = 2

\* C14: the measurements are always 12 values with the fixed mapping: with
\* the holes in ascending x, Value1/2, Value3/4, Value7/8 and Value9/10 are
\* width/height of holes 0, 1, 2 and 3, and Value5, Value6, Value11, Value12
\* are the top, bottom, left and right seam; a slot with no hole or seam
\* behind it (fewer than 4 holes, part absent) is 0.  The appended row
\* carries the same 12 values.
C14_MeasurementSlots ==
    result.outcome = "returned" =>
        LET hs == IF frame.present THEN SortedByKey(frame.holes, 1) ELSE <<>>
            seam == IF Len(hs) >= 4 THEN calculate_seam_lengths(hs)
                    ELSE <<0, 0, 0, 0>>
            W(i) == IF i <= Len(hs) THEN 100 * hs[i][2] ELSE 0
            H(i) == IF i <= Len(hs) THEN 100 * hs[i][3] ELSE 0
        IN  /\ DOMAIN result.measurements = 1..12
            /\ frame.present =>
                  /\ Len(hs) = Len(frame.holes)
                  /\ {hs[i] : i \in 1..Len(hs)}
                        = {frame.holes[i] : i \in 1..Len(frame.holes)}
                  /\ \A i \in 1..(Len(hs) - 1) : hs[i][1][1] <= hs[i + 1][1][1]
            /\ result.measurements =
                  <<W(1), H(1), W(2), H(2), seam[1], seam[2],
                    W(3), H(3), W(4), H(4), seam[3], seam[4]>>
            /\ csv[Len(csv)].Values = result.measurements

C14_Witness ==
    /\ result.outcome = "returned"
    /\ frame.present
    /\ Len(frame.holes) = 4
    /\ frame.holes[1] = <<<<440, 140>>, 32, 32>>
    /\ result.measurements[1] = 4400 /\ result.measurements[3] = 4200
    /\ result.measurements[7] = 3000 /\ result.measurements[9] = 3200
    /\ result.measurements[5] > 0 /\ result.measurements[12] > 0

\* s is the gap between the edges of the holes a and b: the distance D of
\* their centres, to the nearest hundredth, less the two radii (width / 2)
IsEdgeGap(a, b, s) ==
    LET dx == b[1][1] - a[1][1]
        dy == b[1][2] - a[1][2]
        n  == 10000 * (dx * dx + dy * dy)
        D  == s + 50 * a[2] + 50 * b[2]
    IN  /\ D > 0
        /\ D * D - D < n
        /\ n <= D * D + D
        /\ (dx * dx + dy * dy = 100 * 100 /\ {a[2], b[2]} = {30, 40}) => s = 6500

\* C15: the seam between two row-mates or column-mates is D - r1 - r2, with D
\* the distance of their centres and r = width / 2 their radii: the gap from
\* edge to edge; for D = 100, r1 = 15, r2 = 20 the seam is 65.
C15_SeamIsEdgeGap ==
    (seams # <<>> /\ Len(seam_holes) >= 4) =>
        LET top_row    == SeamRows(seam_holes)[1]
            bottom_row == SeamRows(seam_holes)[2]
        IN  /\ IsEdgeGap(top_row[1], top_row[2], seams[1])
            /\ IsEdgeGap(bottom_row[1], bottom_row[2], seams[2])
            /\ IsEdgeGap(top_row[1], bottom_row[1], seams[3])
            /\ IsEdgeGap(top_row[2], bottom_row[2], seams[4])

C15_Witness ==
    /\ seams # <<>>
    /\ seam_holes = << <<<<180, 100>>, 40, 40>>, <<<<100, 160>>, 30, 30>>,
                       <<<<100, 300>>, 36, 36>>, <<<<180, 300>>, 36, 36>> >>
    /\ seams[1] = 6500
    /\ seams[2] = 4400

\* C16: adding one vector to the centres of all holes leaves the four seam
\* lengths as they were, and the holes taken as top-left, top-right,
\* bottom-left and bottom-right are the moved ones of before.
C16_TranslationInvariant ==
    [][(seams # <<>> /\ offset' # offset) =>
          LET d == <<offset'[1] - offset[1], offset'[2] - offset[2]>>
          IN  /\ seam_holes' = Translate(seam_holes, d)
              /\ seams' = seams
              /\ Len(seam_holes) >= 4 =>
                    /\ SeamRows(seam_holes')[1]
                          = Translate(SeamRows(seam_holes)[1], d)
                    /\ SeamRows(seam_holes')[2]
                          = Translate(SeamRows(seam_holes)[2], d)]_vars

C16_Witness ==
    /\ offset = <<25, -25>>
    /\ Len(seam_holes) = 4
    /\ seam_holes[1] = <<<<205, 75>>, 40, 40>>
    /\ seams[1] = 6500

\* the sum of gray[i] - mean_threshold over the pixels i..Len(gray)
RECURSIVE Excess(_)
Excess(i) ==
    IF i > Len(gray) THEN 0 ELSE (gray[i] - mean_threshold) + Excess(i + 1)

\* C17: detect_part_presence returns true exactly when the mean of the pixel
\* intensities is below the threshold (the deviations from the threshold sum
\* to less than 0); at a mean equal to the threshold, so for a uniform frame
\* of the threshold's value, and above it, it returns false.
C17_PresenceBelowThreshold ==
    part_present # <<>> =>
        /\ part_present[1] = (Excess(1) < 0)
        /\ (\A i \in 1..Len(gray) : gray[i] = mean_threshold) =>
              part_present[1] = FALSE
        /\ (\A i \in 1..Len(gray) : gray[i] < mean_threshold) =>
              part_present[1] = TRUE

C17_Witness ==
    /\ gray = <<PART_DETECTION_THRESHOLD, PART_DETECTION_THRESHOLD,
                PART_DETECTION_THRESHOLD>>
    /\ mean_threshold = PART_DETECTION_THRESHOLD
    /\ part_present = <<FALSE>>

\* C18: annotation never changes the caller's image: after process_and_save,
\* through annotate_image (4 or more holes) or through the defect texts, the
\* image passed in is as the camera delivered it, without any overlay, and
\* the overlays are on another array, a copy of it.
C18_InputFrameUntouched ==
    img # 0 =>
        /\ heap[img] = [scene |-> frame, overlays |-> <<>>]
        /\ annotated # img
        /\ heap[annotated].scene = frame
        /\ heap[annotated].overlays # <<>>

C18_Witness ==
    /\ img # 0
    /\ frame.present /\ Len(frame.holes) = 4
    /\ heap[img].overlays = <<>>
    /\ Len(heap[annotated].overlays) = 16
    /\ heap[annotated].overlays[1].op = "circle"

\* C19: on an absent part the call skips holes, seams and spatter: whatever
\* the detectors would find, the result is NOK with the single defect
\* "Part Missing" and 12 zero measurements, nok_counter goes up by one and
\* ok_counter stays, and the result is persisted like any other: one row is
\* appended, and the image (the frame with the defect text) is written to a
\* new file when cv2.imwrite can write.
C19_AbsentPartIsNok ==
    [][(IsCall /\ ~frame'.present) =>
          /\ nok_counter' = nok_counter + 1
          /\ ok_counter' = ok_counter
          /\ heap'[annotated'].overlays
                = <<[op |-> "text", at |-> <<20, 30>>, to |-> <<20, 30>>,
                     radius |-> 0, text |-> "Part Missing", scale |-> 10,
                     colour |-> "red", thickness |-> 2]>>
          /\ result'.imwrite_ok =>
                /\ result'.image_path \notin files
                /\ files' = files \cup {result'.image_path}
          /\ result'.outcome = "returned" =>
                /\ result'.status = "NOK"
                /\ result'.defects = <<"Part Missing">>
                /\ \A i \in 1..12 : result'.measurements[i] = 0
                /\ Len(csv') = Len(csv) + 1
                /\ csv'[Len(csv')].OKNOK = "NOK"
                /\ \A i \in 1..12 : csv'[Len(csv')].Values[i] = 0]_vars

C19_Witness ==
    /\ ~frame.present /\ Len(frame.holes) = 4 /\ frame.spatter = 6
    /\ result.outcome = "returned" /\ result.status = "NOK"
    /\ result.defects = <<"Part Missing">>
    /\ nok_counter = 1 /\ ok_counter = 0
    /\ Len(csv) = 1
    /\ files = {result.image_path}

\* C20: the classification of a present part is exhaustive: each failing
\* check adds its defect, in the order missing holes, insufficient holes for
\* weld measurement, excessive spatter, and the spatter check runs whatever
\* the hole checks found; fewer than 4 holes with spatter above the maximum
\* give all three defects.
C20_AllFailingChecksRecorded ==
    (result.outcome = "returned" /\ frame.present) =>
        LET n == Len(frame.holes)
        IN  result.defects =
                (IF n < 4
                 THEN <<"Missing holes: expected 4, found " \o ToString(n),
                        "Insufficient holes for weld measurement">>
                 ELSE <<>>)
                \o (IF frame.spatter > max_spatter_count
                    THEN <<"Excessive spatter: " \o ToString(frame.spatter)
                               \o " detected">>
                    ELSE <<>>)

C20_Witness ==
    /\ result.outcome = "returned"
    /\ frame.present /\ Len(frame.holes) = 3 /\ frame.spatter = 6
    /\ result.defects = <<"Missing holes: expected 4, found 3",
                          "Insufficient holes for weld measurement",
                          "Excessive spatter: 6 detected">>

\* two frames with the same part presence, hole count and spatter count
SameCounts(fr1, fr2) ==
    /\ fr1.present = fr2.present
    /\ Len(fr1.holes) = Len(fr2.holes)
    /\ fr1.spatter = fr2.spatter

\* a width outside [HOLE_DIAMETER_MIN, HOLE_DIAMETER_MAX]
DiameterOutOfBand(h) == h[2] < HOLE_DIAMETER_MIN \/ h[2] > HOLE_DIAMETER_MAX

\* a seam (in hundredths) outside [WELD_SEAM_LENGTH_MIN, WELD_SEAM_LENGTH_MAX]
SeamOutOfBand(s) == s < 100 * WELD_SEAM_LENGTH_MIN \/ s > 100 * WELD_SEAM_LENGTH_MAX

\* C21: the verdict depends only on part presence, hole count and spatter
\* count: every frame that agrees with the processed one on these three is
\* given the status and the defects the processed one got, whatever its hole
\* diameters and seams are (outside the tolerance bands, negative); the status
\* is OK exactly for a present part with at least 4 holes and spatter within
\* the limit.
C21_VerdictFromCountsOnly ==
    result.outcome = "returned" =>
        /\ \A fr2 \in Frames :
              SameCounts(frame, fr2) =>
                  /\ Analyse(fr2, max_spatter_count).status = result.status
                  /\ Analyse(fr2, max_spatter_count).defects = result.defects
        /\ (result.status = "OK") <=>
              /\ frame.present
              /\ Len(frame.holes) >= EXPECTED_HOLE_COUNT
              /\ frame.spatter <= max_spatter_count

C21_Witness ==
    /\ result.outcome = "returned"
    /\ result.status = "OK" /\ result.defects = <<>>
    /\ frame.present /\ Len(frame.holes) = 4
    /\ \E i \in 1..4 : DiameterOutOfBand(frame.holes[i])
    /\ result.measurements[5] < 0
    /\ result.measurements[6] > 0 /\ SeamOutOfBand(result.measurements[6])
    /\ \E fr2 \in Frames :
          /\ SameCounts(frame, fr2)
          /\ \A i \in 1..4 : ~DiameterOutOfBand(fr2.holes[i])

\* the circles of the holes a and b overlap: the distance of their centres is
\* smaller than the sum of their radii (width / 2)
Overlap(a, b) ==
    LET dx == b[1][1] - a[1][1]
        dy == b[1][2] - a[1][2]
    IN  4 * (dx * dx + dy * dy) < (a[2] + b[2]) * (a[2] + b[2])

\* C22: seam values are surfaced, never clamped: when the two holes of a seam
\* overlap, calculate_seam_lengths returns a negative value for that seam, and
\* a returned call has that same negative value in the seam slot of the
\* result and of the appended row; every seam slot of the row is the value
\* calculate_seam_lengths returned.
C22_NegativeSeamSurfaced ==
    (result.outcome = "returned" /\ frame.present /\ Len(frame.holes) >= 4) =>
        LET holes == SortedByKey(frame.holes, 1)
            top_row == SeamRows(holes)[1]
            bottom_row == SeamRows(holes)[2]
            seam == calculate_seam_lengths(holes)
            pairs == << <<top_row[1], top_row[2]>>, <<bottom_row[1], bottom_row[2]>>,
                        <<top_row[1], bottom_row[1]>>, <<top_row[2], bottom_row[2]>> >>
            slot == <<5, 6, 11, 12>>
        IN  \A k \in 1..4 :
                /\ Overlap(pairs[k][1], pairs[k][2]) => seam[k] < 0
                /\ result.measurements[slot[k]] = seam[k]
                /\ csv[Len(csv)].Values[slot[k]] = seam[k]

C22_Witness ==
    /\ result.outcome = "returned"
    /\ frame.present /\ Len(frame.holes) = 4
    /\ Overlap(frame.holes[2], frame.holes[3])
    /\ result.measurements[5] = -2000
    /\ csv[Len(csv)].Values[5] = -2000

\* the holes of a list, as a set
HoleSet(holes) == {holes[i] : i \in 1..Len(holes)}

\* T is a top row of the set S of 4 holes: two holes, each strictly above
\* (smaller y than) the other two, with distinct x in T and in the rest
IsTopRow(T, S) ==
    /\ Cardinality(T) = 2
    /\ \A t \in T, b \in S \ T : t[1][2] < b[1][2]
    /\ \A g \in T, h \in T : g # h => g[1][1] # h[1][1]
    /\ \A g \in S \ T, h \in S \ T : g # h => g[1][1] # h[1][1]

\* the hole of smallest x, and of largest x, in a row
LeftOf(row) == CHOOSE h \in row : \A g \in row : h[1][1] <= g[1][1]
RightOf(row) == CHOOSE h \in row : \A g \in row : h[1][1] >= g[1][1]

\* C23: for 4 holes in any order, the two smallest y strictly below the other
\* two and x distinct within each row, calculate_seam_lengths takes the two
\* holes of smallest y as top row, the other two as bottom row, the smaller x
\* of a row as left, and returns (top, bottom, left, right) as the edge gaps
\* TL-TR, BL-BR, TL-BL, TR-BR; every permutation of the list gives the same.
C23_RowsByPosition ==
    (seams # <<>> /\ Len(seam_holes) = 4) =>
        LET S == HoleSet(seam_holes)
        IN  \A T \in SUBSET S :
                IsTopRow(T, S) =>
                    LET tl == LeftOf(T)
                        tr == RightOf(T)
                        bl == LeftOf(S \ T)
                        br == RightOf(S \ T)
                    IN  /\ SeamRows(seam_holes) = << <<tl, tr>>, <<bl, br>> >>
                        /\ IsEdgeGap(tl, tr, seams[1])
                        /\ IsEdgeGap(bl, br, seams[2])
                        /\ IsEdgeGap(tl, bl, seams[3])
                        /\ IsEdgeGap(tr, br, seams[4])
                        /\ \A p \in Permutations(1..4) :
                              calculate_seam_lengths([k \in 1..4 |-> seam_holes[p[k]]])
                                  = seams

C23_Witness ==
    /\ seams = <<22000, 22000, 8800, 8800>>
    /\ seam_holes = <<Hole(4), Hole(1), Hole(3), Hole(2)>>
    /\ IsTopRow({Hole(1), Hole(2)}, HoleSet(seam_holes))

\* a red text drawn on an image: a status or defect line
IsDefectLine(o) == o.op = "text" /\ o.colour = "red"

\* the defect lines on the image the last call handed to cv2.imwrite
DefectLines == SelectSeq(heap[annotated].overlays, IsDefectLine)

\* C24: for every NOK result, under every configured MAX_SPATTER_COUNT, the
\* saved image carries one text line per recorded defect, the first at
\* vertical offset 30 and each next one 30 lower, also when the image was
\* drawn by annotate_image (4 or more holes).
C24_OneLinePerDefect ==
    (result.outcome = "returned" /\ result.status = "NOK") =>
        /\ Len(DefectLines) = Len(result.defects)
        /\ \A k \in 1..Len(DefectLines) : DefectLines[k].at = <<20, 30 * k>>

\* C25: detect_spatter returns the number of contours whose area is strictly
\* between 3 and 100 pixels: a contour of area exactly 3 or exactly 100, and
\* every contour outside the band, is not counted.
C25_SpatterAreaBand ==
    spatter_found # <<>> =>
        /\ spatter_found[1] =
              Cardinality({i \in 1..Len(contour_areas) :
                              contour_areas[i] > 6 /\ contour_areas[i] < 200})
        /\ (\A i \in 1..Len(contour_areas) :
                  contour_areas[i] <= 6 \/ contour_areas[i] >= 200) =>
              spatter_found[1] = 0

C25_Witness ==
    /\ contour_areas = <<6, 7, 200>>
    /\ spatter_found = <<1>>

\* the _save_to_csv calls completed so far, over all processes
RECURSIVE Appended(_)
Appended(ws) ==
    IF ws = {} THEN 0
    ELSE LET w == CHOOSE v \in ws : TRUE
         IN  locals[w].appended + Appended(ws \ {w})

\* the record has lost a row: fewer rows than completed appends
RowLost == Len(csv) < Appended(writers)

\* the process w writes over a row another process appended since w read
StaleWrite(w) == pc[w] = "read" /\ Len(locals[w].df_existing) < Len(csv)

\* C26: the record append is a read of the whole record followed by a
\* rewrite of the whole record, without a lock: a write replaces the file by
\* the rows its process read plus one, so a process that writes after another
\* one wrote since its read drops that row; the record never has more rows
\* than completed appends, and with a single writer it has exactly as many,
\* numbered 1, 2, ... (no row lost, no Number given twice).
C26_LostAppendNeedsTwoWriters ==
    /\ [](/\ Len(csv) <= Appended(writers)
          /\ writers = {1} =>
                /\ ~RowLost
                /\ \A i \in 1..Len(csv) : csv[i].Number = i
                /\ \A w \in writers : ~StaleWrite(w))
    /\ [][\A w \in writers :
            (pc[w] = "read" /\ pc'[w] = "idle") =>
                /\ Len(csv') = Len(locals[w].df_existing) + 1
                /\ csv'[Len(csv')].Number = Len(csv')
                /\ StaleWrite(w) => Len(csv') <= Len(csv)]_vars

\* both processes read the empty record, then both wrote: two appends, one
\* row, and both rows were numbered 1
C26_Witness ==
    /\ writers = {1, 2}
    /\ locals[1].appended = 1 /\ locals[2].appended = 1
    /\ pc[1] = "idle" /\ pc[2] = "idle"
    /\ locals[1].df_existing = <<>> /\ locals[2].df_existing = <<>>
    /\ Len(csv) = 1
    /\ locals[1].row.Number = 1 /\ locals[2].row.Number = 1
    /\ RowLost

\* the holes behind the hole slots Value1-4 and Value7-10 of the last call
SlotHoles == HoleSet(SubSeq(SortedByKey(frame.holes, 1), 1, 4))

\* the holes behind the seam slots Value5, 6, 11, 12 of the last call
SeamHoles ==
    HoleSet(SeamRows(SortedByKey(frame.holes, 1))[1])
        \cup HoleSet(SeamRows(SortedByKey(frame.holes, 1))[2])

\* C27: when more than 4 holes are detected only 4 are used: the seams come
\* from the 4 holes of smallest y, the hole slots from the 4 holes of smallest
\* x, and the seams and the hole sizes of a row refer to the same four holes.
C27_SameFourHoles ==
    (result.outcome = "returned" /\ frame.present /\ Len(frame.holes) > 4) =>
        /\ Cardinality(SlotHoles) = 4
        /\ Cardinality(SeamHoles) = 4
        /\ \A h \in SeamHoles, g \in HoleSet(frame.holes) \ SeamHoles :
              h[1][2] <= g[1][2]
        /\ \A h \in SlotHoles, g \in HoleSet(frame.holes) \ SlotHoles :
              h[1][1] <= g[1][1]
        /\ SeamHoles = SlotHoles

\* the position of the hole h in the list holes
Pos(holes, h) == CHOOSE i \in 1..Len(holes) : holes[i] = h

\* the list holes in the order p
Reordered(holes, p) == [k \in 1..Len(holes) |-> holes[p[k]]]

\* no two holes of the list share an x or a y coordinate
NoSharedCoordinate(holes) ==
    \A i \in 1..Len(holes), j \in 1..Len(holes) :
        i # j => /\ holes[i][1][1] # holes[j][1][1]
                 /\ holes[i][1][2] # holes[j][1][2]

\* the list sorted is holes in ascending order of the coordinate axis, holes
\* of equal coordinate in the order they have in holes
StablySorted(sorted, holes, axis) ==
    /\ Len(sorted) = Len(holes)
    /\ HoleSet(sorted) = HoleSet(holes)
    /\ \A i \in 1..Len(sorted), j \in 1..Len(sorted) :
          i < j => \/ sorted[i][1][axis] < sorted[j][1][axis]
                   \/ /\ sorted[i][1][axis] = sorted[j][1][axis]
                      /\ Pos(holes, sorted[i]) < Pos(holes, sorted[j])

\* C28: the sorts that order the holes are stable on one key.  The hole slots
\* take the holes in ascending x, holes of equal x in the order the detector
\* returned them; of two holes of equal y of which one lands in the top row
\* and one in the bottom row, the one that comes first in the list given to
\* calculate_seam_lengths is the one in the top row, for every order of that
\* list; and when no two holes share an x or a y, every order of the detected
\* holes gives the same 12 values.
C28_StableSingleKeySorts ==
    (result.outcome = "returned" /\ frame.present) =>
        LET holes == SortedByKey(frame.holes, 1)
            n == Len(frame.holes)
        IN  /\ StablySorted(holes, frame.holes, 1)
            /\ \A k \in 1..(IF n < 4 THEN n ELSE 4) :
                  /\ result.measurements[WidthSlot(k - 1)] = 100 * holes[k][2]
                  /\ result.measurements[WidthSlot(k - 1) + 1] = 100 * holes[k][3]
            /\ n = 4 =>
                  \A p \in Permutations(1..n) :
                      LET passed == Reordered(frame.holes, p)
                          top_row == HoleSet(SeamRows(passed)[1])
                          bottom_row == HoleSet(SeamRows(passed)[2])
                      IN  \A a \in top_row, b \in bottom_row :
                              \/ a[1][2] < b[1][2]
                              \/ /\ a[1][2] = b[1][2]
                                 /\ Pos(passed, a) < Pos(passed, b)
            /\ NoSharedCoordinate(frame.holes) =>
                  \A p \in Permutations(1..n) :
                      Analyse([frame EXCEPT !.holes = Reordered(frame.holes, p)],
                              max_spatter_count).measurements
                          = result.measurements

\* the part turned by 45 degrees: the two holes at x = 300 are in the slots in
\* the order of the detector (the lower one first), the left one of the two
\* holes at y = 200 is in the top row, and another order of the same holes
\* gives other values
C28_Witness ==
    /\ result.outcome = "returned"
    /\ frame.present
    /\ frame.holes = << <<<<300, 300>>, 34, 34>>, <<<<400, 200>>, 36, 36>>,
                        <<<<300, 100>>, 38, 38>>, <<<<200, 200>>, 40, 40>> >>
    /\ result.measurements[3] = 3400 /\ result.measurements[7] = 3800
    /\ SeamRows(SortedByKey(frame.holes, 1))[1]
          = << <<<<200, 200>>, 40, 40>>, <<<<300, 100>>, 38, 38>> >>
    /\ \E p \in Permutations(1..4) :
          Analyse([frame EXCEPT !.holes = Reordered(frame.holes, p)],
                  max_spatter_count).measurements # result.measurements

\* creating an Inspector on an order whose record exists leaves the rows of
\* the record as they are and restarts both counters at 0
CreationKeepsRecord ==
    session' # session =>
        /\ csv' = csv
        /\ rows_at_creation' = Len(csv)
        /\ ok_counter' = 0
        /\ nok_counter' = 0

\* the row a completed call appends is numbered on from the rows present
NumberContinues ==
    (IsCall /\ result'.outcome = "returned") =>
        /\ Len(csv') = Len(csv) + 1
        /\ csv'[Len(csv')].Number = Len(csv) + 1

\* C29 as stated: after every completed process_and_save the record has the
\* rows it held when the Inspector was created plus ok_counter + nok_counter;
\* creating an Inspector on an existing record leaves its rows unchanged, so
\* Number continues from the existing row count while the counters restart.
C29_RowsAreCreationPlusCounters ==
    /\ [](result.outcome = "returned" =>
              Len(csv) = rows_at_creation + ok_counter + nok_counter)
    /\ [][CreationKeepsRecord]_vars
    /\ [][NumberContinues]_vars

\* C29 (amended): at every moment of a session the record has the rows it
\* held when the Inspector was created plus ok_counter + nok_counter less
\* the calls of the session whose record append raised, so the sum of the
\* counters is the number of rows added exactly while no call has raised;
\* creating an Inspector on an existing record leaves its rows unchanged, so
\* Number continues from the existing row count while the counters restart.
C29_RowsAreCreationPlusAppended ==
    /\ [](/\ Len(csv) = rows_at_creation + ok_counter + nok_counter - raised
          /\ Len(csv) = rows_at_creation + done_ok + done_nok
          /\ raised = 0 => Len(csv) = rows_at_creation + ok_counter + nok_counter)
    /\ [][CreationKeepsRecord]_vars
    /\ [][NumberContinues]_vars

C29_Witness ==
    /\ session = 2
    /\ rows_at_creation = 1
    /\ result.outcome = "returned"
    /\ raised = 0
    /\ ok_counter + nok_counter = 1
    /\ Len(csv) = 2
    /\ csv[2].Number = 2 /\ csv[2].Counter = 1

\* the rows of the record with the status st
RECURSIVE StatusRows(_, _)
StatusRows(rows, st) ==
    IF rows = <<>> THEN 0
    ELSE (IF Head(rows).OKNOK = st THEN 1 ELSE 0) + StatusRows(Tail(rows), st)

\* the counters are the per-status row counts of the record
CountersMatchRows ==
    /\ ok_counter = StatusRows(csv, "OK")
    /\ nok_counter = StatusRows(csv, "NOK")

\* the places of a call, in the order of the code
StepOrder == <<"idle", "classified", "counted", "named", "written", "idle">>

\* a step of a call goes from one place to the next, and each side effect is
\* the work of its own step
SideEffectsInOrder ==
    /\ pc'[1] # pc[1] =>
          \E k \in 1..5 : pc[1] = StepOrder[k] /\ pc'[1] = StepOrder[k + 1]
    /\ <<ok_counter', nok_counter'>> # <<ok_counter, nok_counter>> =>
          /\ pc[1] = "classified" /\ pc'[1] = "counted"
          /\ ok_counter' + nok_counter' = ok_counter + nok_counter + 1
          /\ files' = files /\ csv' = csv
    /\ locals'[1].output_path # locals[1].output_path =>
          \/ pc[1] = "counted" /\ pc'[1] = "named" /\ files' = files /\ csv' = csv
          \/ pc[1] = "idle"
    /\ files' # files =>
          /\ pc[1] = "named" /\ pc'[1] = "written"
          /\ files' = files \cup {locals[1].output_path}
          /\ csv' = csv
    /\ csv' # csv =>
          /\ pc[1] = "written" /\ pc'[1] = "idle"
          /\ result'.outcome = "returned"

\* the call of process 1 ends with an exception of the record append
AppendRaises ==
    pc[1] = "written" /\ pc'[1] = "idle" /\ result'.outcome = "raised"

\* C30: within one process_and_save the side effects happen in the order
\* counter increment, file-name request, image write, record append; when the
\* append raises, the call ends with the counter of the frame's status
\* already incremented and cv2.imwrite already called on the requested path
\* (the file is there when it could write), with no row added, and from then
\* on the counters are not the per-status row counts of the record.
C30_SideEffectOrder ==
    /\ [][SideEffectsInOrder]_vars
    /\ [][AppendRaises =>
            /\ csv' = csv
            /\ locals[1].counter_val =
                  (IF locals[1].r.status = "OK" THEN ok_counter' ELSE nok_counter')
            /\ locals[1].counter_val >= 1
            /\ result'.image_path = locals[1].output_path
            /\ locals[1].imwrite_ok => result'.image_path \in files'
            /\ ~CountersMatchRows']_vars
    /\ [](pc[1] = "idle" => (CountersMatchRows <=> raised = 0))

C30_Witness ==
    /\ pc[1] = "idle"
    /\ result.outcome = "raised"
    /\ raised = 1 /\ calls = 1
    /\ ok_counter = 1 /\ nok_counter = 0
    /\ csv = <<>>
    /\ files = {"./042/OK_042_1568Count1_CAM1.jpg"}
    /\ ~CountersMatchRows

====
